---- MODULE Spec2Model ----
(***************************************************************************)
(* jmux / jcat remote-terminal transport: plain and secure handshake,      *)
(* password challenge-response, session-key derivation and the             *)
(* ChaCha20-Poly1305 framing of internal/security and internal/jcat.       *)
(*                                                                         *)
(* Everything on a socket is a sequence of bytes (integers 0..255); text   *)
(* is written as tuples of one-character strings and converted with Asc.   *)
(* The library primitives (argon2.IDKey, HMAC-SHA256, ChaCha20-Poly1305)   *)
(* are replaced by small arithmetic stand-ins that are collision-free on   *)
(* the bounded inputs of the model; what is translated from the source is  *)
(* how the program slices, passes and compares their inputs and outputs.   *)
(***************************************************************************)
EXTENDS Integers, Sequences, FiniteSets, TLC

\* ------------------------------------------------------------------ bounds
\* longest plaintext handed to Encrypt / EncryptedConn.Write
MaxPlain == 2
\* number of records one endpoint writes in the framing specifications
MaxRecords == 2
\* the user resizes the terminal at most this many times during a session
MaxResize == 1
\* connections one listener accepts, and errors its Accept returns
MaxConns == 3
MaxAcceptErrors == 2
\* longest byte string handed to FormatChallengeMessage / FormatResponseMessage
MaxMsgBytes == 4
\* processes that share or stop a session at the same time, and the
\* operations on the port-mapping file each of them performs
MaxProcs == 2
MaxPortOps == 2
\* resizes of the joining terminal in a burst
MaxBurst == 2

\* ------------------------------------------------------------- byte strings
Upper == <<"A","B","C","D","E","F","G","H","I","J","K","L","M",
           "N","O","P","Q","R","S","T","U","V","W","X","Y","Z">>
Lower == <<"a","b","c","d","e","f","g","h","i","j","k","l","m",
           "n","o","p","q","r","s","t","u","v","w","x","y","z">>
Digit == <<"0","1","2","3","4","5","6","7","8","9">>

\* ASCII code of a character used by the protocol
Ord(c) ==
    IF \E i \in 1..26 : Upper[i] = c THEN 64 + (CHOOSE i \in 1..26 : Upper[i] = c)
    ELSE IF \E i \in 1..26 : Lower[i] = c THEN 96 + (CHOOSE i \in 1..26 : Lower[i] = c)
    ELSE IF \E i \in 1..10 : Digit[i] = c THEN 47 + (CHOOSE i \in 1..10 : Digit[i] = c)
    ELSE CASE c = "\n" -> 10
           [] c = "\r" -> 13
           [] c = "\t" -> 9
           [] c = " "  -> 32
           [] c = "!"  -> 33
           [] c = "+"  -> 43
           [] c = "-"  -> 45
           [] c = "."  -> 46
           [] c = "/"  -> 47
           [] c = ":"  -> 58
           [] c = "="  -> 61
           [] c = "_"  -> 95

\* []byte(s) for a string literal s given as a tuple of characters
Asc(t) == [i \in 1..Len(t) |-> Ord(t[i])]

NL == 10

\* s[from:] in Go, as a 1-based sequence
Drop(s, n) == SubSeq(s, n + 1, Len(s))
Take(s, n) == SubSeq(s, 1, n)

IsSpace(b) == b \in {9, 10, 11, 12, 13, 32}

RECURSIVE TrimLeft(_)
TrimLeft(s) == IF s # <<>> /\ IsSpace(Head(s)) THEN TrimLeft(Tail(s)) ELSE s

RECURSIVE TrimRight(_)
TrimRight(s) ==
    IF s # <<>> /\ IsSpace(s[Len(s)]) THEN TrimRight(Take(s, Len(s) - 1)) ELSE s

\* strings.TrimSpace
TrimSpace(s) == TrimRight(TrimLeft(s))

\* strings.HasPrefix / strings.TrimPrefix
HasPrefix(s, p) == Len(s) >= Len(p) /\ Take(s, Len(p)) = p
TrimPrefix(s, p) == IF HasPrefix(s, p) THEN Drop(s, Len(p)) ELSE s

\* strings.Contains(s, "\n") / index of the first occurrence of byte b (0: none)
ContainsByte(s, b) == \E i \in 1..Len(s) : s[i] = b
IndexByte(s, b) ==
    IF ContainsByte(s, b)
    THEN CHOOSE i \in 1..Len(s) : s[i] = b /\ \A j \in 1..(i - 1) : s[j] # b
    ELSE 0

Pow2(k) == CASE k = 0 -> 1 [] k = 1 -> 2 [] k = 2 -> 4 [] k = 3 -> 8
             [] k = 4 -> 16 [] k = 5 -> 32 [] k = 6 -> 64 [] k = 7 -> 128

\* b ^ (1 << k) for a byte b
FlipBit(b, k) ==
    IF (b \div Pow2(k)) % 2 = 1 THEN b - Pow2(k) ELSE b + Pow2(k)

\* a result of a Go function returning ([]byte, error)
Ok(v)  == [ok |-> TRUE, val |-> v]
Err    == [ok |-> FALSE, val |-> <<>>]

\* ----------------------------------------------------- encoding/base64 (Std)
\* the character of the standard alphabet at index i in 0..63
B64Char(i) ==
    IF i < 26 THEN 65 + i
    ELSE IF i < 52 THEN 97 + (i - 26)
    ELSE IF i < 62 THEN 48 + (i - 52)
    ELSE IF i = 62 THEN 43 ELSE 47

B64Pad == 61

IsB64Char(c) ==
    \/ c \in 65..90 \/ c \in 97..122 \/ c \in 48..57 \/ c = 43 \/ c = 47

B64Index(c) ==
    IF c \in 65..90 THEN c - 65
    ELSE IF c \in 97..122 THEN c - 97 + 26
    ELSE IF c \in 48..57 THEN c - 48 + 52
    ELSE IF c = 43 THEN 62 ELSE 63

\* base64.StdEncoding.EncodeToString
RECURSIVE B64Encode(_)
B64Encode(b) ==
    IF Len(b) = 0 THEN <<>>
    ELSE IF Len(b) = 1 THEN
        << B64Char(b[1] \div 4), B64Char((b[1] % 4) * 16), B64Pad, B64Pad >>
    ELSE IF Len(b) = 2 THEN
        << B64Char(b[1] \div 4),
           B64Char((b[1] % 4) * 16 + (b[2] \div 16)),
           B64Char((b[2] % 16) * 4), B64Pad >>
    ELSE
        << B64Char(b[1] \div 4),
           B64Char((b[1] % 4) * 16 + (b[2] \div 16)),
           B64Char((b[2] % 16) * 4 + (b[3] \div 64)),
           B64Char(b[3] % 64) >> \o B64Encode(Drop(b, 3))

\* one quantum of four characters; the last one may carry padding
B64Quantum(q, last) ==
    LET i1 == B64Index(q[1])
        i2 == B64Index(q[2])
        i3 == B64Index(q[3])
        i4 == B64Index(q[4])
    IN  IF ~IsB64Char(q[1]) \/ ~IsB64Char(q[2]) THEN Err
        ELSE IF q[3] = B64Pad THEN
            IF last /\ q[4] = B64Pad
            THEN Ok(<< i1 * 4 + (i2 \div 16) >>)
            ELSE Err
        ELSE IF ~IsB64Char(q[3]) THEN Err
        ELSE IF q[4] = B64Pad THEN
            IF last
            THEN Ok(<< i1 * 4 + (i2 \div 16), (i2 % 16) * 16 + (i3 \div 4) >>)
            ELSE Err
        ELSE IF ~IsB64Char(q[4]) THEN Err
        ELSE Ok(<< i1 * 4 + (i2 \div 16),
                   (i2 % 16) * 16 + (i3 \div 4),
                   (i3 % 4) * 64 + i4 >>)

RECURSIVE B64DecodeQuanta(_)
B64DecodeQuanta(s) ==
    IF Len(s) = 0 THEN Ok(<<>>)
    ELSE IF Len(s) < 4 THEN Err
    ELSE LET q == B64Quantum(Take(s, 4), Len(s) = 4)
             r == B64DecodeQuanta(Drop(s, 4))
         IN  IF q.ok /\ r.ok THEN Ok(q.val \o r.val) ELSE Err

\* base64.StdEncoding.DecodeString: '\r' and '\n' are skipped, padding is
\* required, any other character outside the alphabet is an error
B64Decode(s) == B64DecodeQuanta(SelectSeq(s, LAMBDA c : c # 10 /\ c # 13))

\* ------------------------------------------------ internal/security: config
\* SecurityConfig: Enabled, GlobalPassword and the SessionPasswords map (a
\* function whose domain is the set of session names that have an entry)
SecurityConfig(enabled, global, sessions) ==
    [Enabled |-> enabled, GlobalPassword |-> global, SessionPasswords |-> sessions]

\* a plausible slip: the global password is preferred to the session's
GetPasswordForSessionGlobalFirst(config, sessionName) ==
    IF config.GlobalPassword # <<>> THEN config.GlobalPassword
    ELSE IF sessionName \in DOMAIN config.SessionPasswords
    THEN config.SessionPasswords[sessionName]
    ELSE <<>>

\* PasswordAuth.GetPasswordForSession
GetPasswordForSession(config, sessionName) ==
    IF sessionName \in DOMAIN config.SessionPasswords
    THEN config.SessionPasswords[sessionName]
    ELSE config.GlobalPassword

\* ------------------------------------------- internal/security: PasswordAuth
\* a password of at most 15 bytes as a 16-byte block: its length, its bytes, zeros
PadPassword(password) ==
    [i \in 1..16 |-> IF i = 1 THEN Len(password)
                     ELSE IF i - 1 <= Len(password) THEN password[i - 1] ELSE 0]

\* PasswordAuth.DeriveKey: argon2.IDKey(password, salt, ...) with KeyLength 32.
\* Stand-in: the 32 bytes are an injective encoding of (password, salt).
DeriveKey(password, salt) ==
    PadPassword(password) \o [i \in 1..16 |-> IF i <= Len(salt) THEN salt[i] ELSE 0]

\* hmac.New(sha256.New, key); mac.Write(msg); mac.Sum(nil): 32 bytes.
\* Stand-in: for a fixed message a bijection of the 32-byte key.
HmacSha256(key, msg) ==
    [i \in 1..32 |-> (key[i] + msg[((i - 1) % Len(msg)) + 1]) % 256]

\* a plausible slip: the auth key is derived without the password
GenerateAuthResponseNoPassword(password, nonce) ==
    IF Len(nonce) < 16 THEN Err
    ELSE Ok(HmacSha256(DeriveKey(<<>>, Take(nonce, 16)), nonce))

\* PasswordAuth.GenerateAuthResponse
GenerateAuthResponse(password, nonce) ==
    IF Len(nonce) < 16 THEN Err
    ELSE LET authSalt == Take(nonce, 16)
             authKey == DeriveKey(password, authSalt)
         IN  Ok(HmacSha256(authKey, nonce))

\* a plausible slip: the response is verified without looking at the password
VerifyAuthResponseAnyPassword(password, nonce, response) ==
    Len(nonce) >= 16 /\ Len(response) = 32

\* PasswordAuth.VerifyAuthResponse (hmac.Equal compares lengths and bytes)
VerifyAuthResponse(password, nonce, response) ==
    LET expectedResponse == GenerateAuthResponse(password, nonce)
    IN  IF ~expectedResponse.ok THEN FALSE
        ELSE expectedResponse.val = response

\* PasswordAuth.DeriveSessionKey
DeriveSessionKey(password, nonce) ==
    IF Len(nonce) < 32 THEN Err
    ELSE LET sessionSalt == SubSeq(nonce, 17, 32)
         IN  Ok(DeriveKey(password, sessionSalt))

\* ------------------------------------- internal/security: EncryptedConnection
AeadNonceLen == 12
TagLen == 16

Zero8 == [i \in 1..8 |-> 0]

\* nonceCounter is a uint64; it is kept as its eight little-endian bytes
RECURSIVE Inc64(_)
Inc64(c) ==
    IF c = <<>> THEN <<>>
    ELSE IF Head(c) = 255 THEN <<0>> \o Inc64(Tail(c))
    ELSE <<Head(c) + 1>> \o Tail(c)

\* chacha20poly1305.New(sessionKey[:]) and the counter at zero
NewEncryptedConnection(sessionKey) == [cipher |-> sessionKey, nonceCounter |-> Zero8]

\* ChaCha20 key stream byte i for (key, nonce): stand-in
KeyStream(key, nonce, i) ==
    (key[((i - 1) % 32) + 1] + nonce[((i - 1) % 12) + 1] + i) % 256

RECURSIVE WeightedSum(_, _, _)
WeightedSum(ct, i, j) ==
    IF i > Len(ct) THEN 0
    ELSE (ct[i] * (2 * (i + j) + 1) + WeightedSum(ct, i + 1, j)) % 256

\* Poly1305 tag of the ciphertext under (key, nonce): stand-in.  Every tag byte
\* changes when one bit of the ciphertext changes (the weights are odd).
Tag(key, nonce, ct) ==
    [j \in 1..16 |->
        (key[j] + key[j + 16] + nonce[((j - 1) % 12) + 1] + Len(ct)
            + WeightedSum(ct, 1, j)) % 256]

\* cipher.AEAD.Seal(nil, nonce, data, nil): ciphertext followed by the tag
Seal(key, nonce, data) ==
    LET ct == [i \in 1..Len(data) |-> (data[i] + KeyStream(key, nonce, i)) % 256]
    IN  ct \o Tag(key, nonce, ct)

\* cipher.AEAD.Open(nil, nonce, ciphertext, nil)
Open(key, nonce, ciphertext) ==
    IF Len(ciphertext) < TagLen \/ Len(nonce) # AeadNonceLen THEN Err
    ELSE LET ct == Take(ciphertext, Len(ciphertext) - TagLen)
             tag == Drop(ciphertext, Len(ciphertext) - TagLen)
         IN  IF tag # Tag(key, nonce, ct) THEN Err
             ELSE Ok([i \in 1..Len(ct) |->
                        (ct[i] + 256 - KeyStream(key, nonce, i)) % 256])

\* EncryptedConnection.Encrypt: the record (nonce ++ ciphertext ++ tag) and the
\* connection with its counter advanced
Encrypt(ec, data) ==
    LET nonce == [i \in 1..12 |-> IF i <= 8 THEN ec.nonceCounter[i] ELSE 0]
    IN  [ec |-> [ec EXCEPT !.nonceCounter = Inc64(ec.nonceCounter)],
         ok |-> TRUE,
         val |-> nonce \o Seal(ec.cipher, nonce, data)]

\* a plausible slip: the ciphertext is taken from data[11:]
DecryptOffByOne(ec, data) ==
    IF Len(data) < 12 THEN Err
    ELSE Open(ec.cipher, Take(data, 12), Drop(data, 11))

\* a plausible slip: the error of Open is dropped and the bytes are returned
DecryptUnchecked(ec, data) ==
    IF Len(data) < 12 THEN Err
    ELSE LET nonce == Take(data, 12)
             ciphertext == Drop(data, 12)
             n == IF Len(ciphertext) >= TagLen THEN Len(ciphertext) - TagLen ELSE 0
         IN  Ok([i \in 1..n |->
                   (ciphertext[i] + 256 - KeyStream(ec.cipher, nonce, i)) % 256])

\* EncryptedConnection.Decrypt
Decrypt(ec, data) ==
    IF Len(data) < 12 THEN Err
    ELSE LET nonce == Take(data, 12)
             ciphertext == Drop(data, 12)
         IN  Open(ec.cipher, nonce, ciphertext)

\* --------------------------------------- internal/security: protocol messages
\* a plausible slip: the secure listener announces itself without the flag
SecureHandshakeMsgNoFlag == Asc(<<"J","C","A","T","/","2",".","0",".","0","\n">>)

SecureHandshakeMsg ==
    Asc(<<"J","C","A","T","/","2",".","0",".","0","+","S","E","C","\n">>)
AuthMethodPassword == Asc(<<"p","a","s","s","w","o","r","d">>)

AuthPrefix == Asc(<<"A","U","T","H",":">>)
ChallengePrefix == Asc(<<"C","H","A","L","L","E","N","G","E",":">>)
ResponsePrefix == Asc(<<"R","E","S","P","O","N","S","E",":">>)
AuthOkMsg == Asc(<<"A","U","T","H","_","O","K","\n">>)
AuthFailMsg == Asc(<<"A","U","T","H","_","F","A","I","L","\n">>)
ModePrefix == Asc(<<"M","O","D","E",":">>)

\* a plausible slip: the prefix is removed when present but not required
ParseAuthMessageNoPrefixCheck(msg) ==
    LET m == TrimSpace(msg)
    IN  IF TrimPrefix(m, AuthPrefix) = <<>> THEN Err
        ELSE Ok(TrimPrefix(m, AuthPrefix))

\* ParseAuthMessage
ParseAuthMessage(msg) ==
    LET m == TrimSpace(msg)
    IN  IF ~HasPrefix(m, AuthPrefix) THEN Err
        ELSE IF TrimPrefix(m, AuthPrefix) = <<>> THEN Err
        ELSE Ok(TrimPrefix(m, AuthPrefix))

\* a plausible slip: the nonce is written as it is, not in base64
FormatChallengeMessageRaw(nonce) == ChallengePrefix \o nonce \o <<NL>>

\* FormatChallengeMessage / ParseChallengeMessage
FormatChallengeMessage(nonce) == ChallengePrefix \o B64Encode(nonce) \o <<NL>>

ParseChallengeMessage(msg) ==
    LET m == TrimSpace(msg)
    IN  IF ~HasPrefix(m, ChallengePrefix) THEN Err
        ELSE B64Decode(TrimPrefix(m, ChallengePrefix))

\* FormatResponseMessage / ParseResponseMessage
\* a plausible slip: the first bytes of a record go out with the response
\* line, before AUTH_OK has been read
FormatResponseMessagePipelined(response) ==
    ResponsePrefix \o B64Encode(response) \o <<NL>> \o << 0, 0, 0, 1 >>

FormatResponseMessage(response) == ResponsePrefix \o B64Encode(response) \o <<NL>>

ParseResponseMessage(msg) ==
    LET m == TrimSpace(msg)
    IN  IF ~HasPrefix(m, ResponsePrefix) THEN Err
        ELSE B64Decode(TrimPrefix(m, ResponsePrefix))

\* ------------------------------------------------- internal/jcat: constants
\* HandshakeMsg = "JCAT/" + JcatVersion + "\n"
HandshakeMsg == Asc(<<"J","C","A","T","/","2",".","0",".","0","\n">>)

ModePair == Asc(<<"p","a","i","r">>)
ModeView == Asc(<<"v","i","e","w">>)
ModeRogue == Asc(<<"r","o","g","u","e">>)
Modes == {ModePair, ModeView, ModeRogue}
\* NewClientWithMode(connectAddr, mode) takes any string: one that is none of
\* the three
ModeOther == Asc(<<"p","e","e","k">>)
ClientModes == Modes \cup {ModeOther}

\* fmt.Sprintf("MODE:%s\n", c.mode)
ModeMsg(mode) == ModePrefix \o mode \o <<NL>>

\* fmt.Sprintf("AUTH:%s\n", security.AuthMethodPassword)
AuthMsg == AuthPrefix \o AuthMethodPassword \o <<NL>>

\* strings.Split(s, sep)[0] and [1] for a one-byte separator
SplitFirst(s, sep) == IF ContainsByte(s, sep) THEN Take(s, IndexByte(s, sep) - 1) ELSE s
SplitSecond(s, sep) == SplitFirst(Drop(s, IndexByte(s, sep)), sep)

\* a plausible slip: the line is cut at the newline but the prefix stays
ParseModeKeepsPrefix(modeStr) ==
    IF HasPrefix(modeStr, ModePrefix) /\ ContainsByte(modeStr, NL)
    THEN TrimSpace(SplitFirst(modeStr, NL))
    ELSE ModePair

\* the mode parsing shared by Server.handle and performServerHandshake
ParseMode(modeStr) ==
    IF HasPrefix(modeStr, ModePrefix) /\ ContainsByte(modeStr, NL)
    THEN TrimSpace(SplitFirst(TrimSpace(SplitSecond(modeStr, 58)), NL))
    ELSE ModePair

\* ----------------------------------------------- internal/jcat: EncryptedConn
ReadBufSize == 256
MaxRecordLen == 65536

\* NewEncryptedConn
NewEncryptedConn(sessionKey) ==
    [encryptor |-> NewEncryptedConnection(sessionKey), readBuf |-> <<>>]

NoEncryptedConn ==
    [encryptor |-> [cipher |-> <<>>, nonceCounter |-> <<>>], readBuf |-> <<>>]

\* byte(length >> 24), byte(length >> 16), byte(length >> 8), byte(length)
LengthPrefix(length) ==
    << (length \div 16777216) % 256, (length \div 65536) % 256,
       (length \div 256) % 256, length % 256 >>

\* a plausible slip: the bytes go to the socket as they are
ConnWritePlain(ec, p) == [ec |-> ec, bytes |-> p, n |-> Len(p)]

\* EncryptedConn.Write: the connection after the write and the bytes put on
\* the socket (length prefix, then nonce ++ ciphertext ++ tag)
ConnWrite(ec, p) ==
    LET e == Encrypt(ec.encryptor, p)
    IN  [ec |-> [ec EXCEPT !.encryptor = e.ec],
         bytes |-> LengthPrefix(Len(e.val)) \o e.val,
         n |-> Len(p)]

Min(a, b) == IF a < b THEN a ELSE b

\* int(b[0])<<24 | int(b[1])<<16 | int(b[2])<<8 | int(b[3]).  With a first
\* byte above zero the value is at least 2^24 (or negative where int has 32
\* bits and the byte is 128 or more); every such value is outside 1..65536
\* and is kept as 2^24 times the first byte, capped where 32 bits end
PrefixLength(b) ==
    IF b[1] > 0 THEN (IF b[1] > 127 THEN 127 ELSE b[1]) * 16777216
    ELSE b[2] * 65536 + b[3] * 256 + b[4]

\* a plausible slip: the upper limit of the length is not checked
ConnReadNoLimit(ec, avail, size, eof) ==
    IF Len(ec.readBuf) > 0 THEN
        LET n == Min(size, Len(ec.readBuf))
        IN  [status |-> "ok", data |-> Take(ec.readBuf, n), used |-> 0,
             ec |-> [ec EXCEPT !.readBuf = Drop(ec.readBuf, n)]]
    ELSE IF Len(avail) < 4 THEN
        [status |-> IF eof THEN "err" ELSE "block", data |-> <<>>,
         used |-> IF eof THEN Len(avail) ELSE 0, ec |-> ec]
    ELSE
        LET length == PrefixLength(avail)
        IN  IF length <= 0 THEN
                [status |-> "err", data |-> <<>>, used |-> 4, ec |-> ec]
            ELSE IF Len(avail) < 4 + length THEN
                [status |-> IF eof THEN "err" ELSE "block", data |-> <<>>,
                 used |-> IF eof THEN Len(avail) ELSE 0, ec |-> ec]
            ELSE
                LET decryptedData == Decrypt(ec.encryptor, SubSeq(avail, 5, 4 + length))
                    n == Min(size, Len(decryptedData.val))
                IN  IF ~decryptedData.ok THEN
                        [status |-> "err", data |-> <<>>, used |-> 4 + length, ec |-> ec]
                    ELSE
                        [status |-> "ok", data |-> Take(decryptedData.val, n),
                         used |-> 4 + length,
                         ec |-> [ec EXCEPT !.readBuf =
                                    ec.readBuf \o Drop(decryptedData.val, n)]]

\* a plausible slip: what does not fit into p is not kept
ConnReadDropsRest(ec, avail, size, eof) ==
    IF Len(avail) < 4 THEN
        [status |-> IF eof THEN "err" ELSE "block", data |-> <<>>,
         used |-> IF eof THEN Len(avail) ELSE 0, ec |-> ec]
    ELSE
        LET length == PrefixLength(avail)
        IN  IF length <= 0 \/ length > MaxRecordLen THEN
                [status |-> "err", data |-> <<>>, used |-> 4, ec |-> ec]
            ELSE IF Len(avail) < 4 + length THEN
                [status |-> IF eof THEN "err" ELSE "block", data |-> <<>>,
                 used |-> IF eof THEN Len(avail) ELSE 0, ec |-> ec]
            ELSE
                LET decryptedData == Decrypt(ec.encryptor, SubSeq(avail, 5, 4 + length))
                    n == Min(size, Len(decryptedData.val))
                IN  IF ~decryptedData.ok THEN
                        [status |-> "err", data |-> <<>>, used |-> 4 + length, ec |-> ec]
                    ELSE
                        [status |-> "ok", data |-> Take(decryptedData.val, n),
                         used |-> 4 + length, ec |-> ec]

\* EncryptedConn.Read(p) with len(p) = size on a socket holding the bytes avail;
\* eof says that the peer has closed.  status is "ok", "err" or "block" (the
\* io.ReadFull calls wait for more bytes); used is the number of socket bytes
\* consumed.
ConnRead(ec, avail, size, eof) ==
    IF Len(ec.readBuf) > 0 THEN
        LET n == Min(size, Len(ec.readBuf))
        IN  [status |-> "ok", data |-> Take(ec.readBuf, n), used |-> 0,
             ec |-> [ec EXCEPT !.readBuf = Drop(ec.readBuf, n)]]
    ELSE IF Len(avail) < 4 THEN
        [status |-> IF eof THEN "err" ELSE "block", data |-> <<>>,
         used |-> IF eof THEN Len(avail) ELSE 0, ec |-> ec]
    ELSE
        LET length == PrefixLength(avail)
        IN  IF length <= 0 \/ length > MaxRecordLen THEN
                [status |-> "err", data |-> <<>>, used |-> 4, ec |-> ec]
            ELSE IF Len(avail) < 4 + length THEN
                [status |-> IF eof THEN "err" ELSE "block", data |-> <<>>,
                 used |-> IF eof THEN Len(avail) ELSE 0, ec |-> ec]
            ELSE
                LET decryptedData == Decrypt(ec.encryptor, SubSeq(avail, 5, 4 + length))
                    n == Min(size, Len(decryptedData.val))
                IN  IF ~decryptedData.ok THEN
                        [status |-> "err", data |-> <<>>, used |-> 4 + length, ec |-> ec]
                    ELSE
                        [status |-> "ok", data |-> Take(decryptedData.val, n),
                         used |-> 4 + length,
                         ec |-> [ec EXCEPT !.readBuf =
                                    ec.readBuf \o Drop(decryptedData.val, n)]]

\* ------------------------------------------------------------ sockets, bufio
\* bufio.Reader.ReadString('\n') on a reader holding buf over a socket holding
\* avail: a fill takes what the socket holds; eof says the peer has closed
ReadString(buf, avail, eof) ==
    IF ContainsByte(buf, NL) THEN
        [status |-> "ok", line |-> Take(buf, IndexByte(buf, NL)),
         reader |-> Drop(buf, IndexByte(buf, NL)), used |-> 0]
    ELSE IF ContainsByte(avail, NL) THEN
        LET data == buf \o avail
        IN  [status |-> "ok", line |-> Take(data, IndexByte(data, NL)),
             reader |-> Drop(data, IndexByte(data, NL)), used |-> Len(avail)]
    ELSE IF eof THEN
        [status |-> "err", line |-> buf \o avail, reader |-> <<>>, used |-> Len(avail)]
    ELSE
        [status |-> "block", line |-> <<>>, reader |-> buf, used |-> 0]

\* io.ReadFull(conn, buf) with len(buf) = n
ReadFull(avail, n, eof) ==
    IF Len(avail) >= n THEN [status |-> "ok", data |-> Take(avail, n), used |-> n]
    ELSE IF eof THEN [status |-> "err", data |-> avail, used |-> Len(avail)]
    ELSE [status |-> "block", data |-> <<>>, used |-> 0]

\* yamux: the frame Session.Open puts on the wire for a new stream (version 0,
\* type window-update, flag SYN, the stream id, length 0)
YamuxSyn(streamID) == << 0, 1, 0, 1, 0, 0, 0, streamID, 0, 0, 0, 0 >>
YamuxHeaderLen == 12
ControlStreamID == 1
DataStreamID == 3

\* ------------------------------------------------------------------- inputs
PwGlobal == Asc(<<"g","p">>)
PwDev == Asc(<<"d">>)
PwShare == Asc(<<"s">>)
PwWrong == Asc(<<"x">>)
NoPassword == <<>>
Passwords == {PwGlobal, PwDev, PwShare, PwWrong}

NoSessions == [n \in {} |-> <<>>]
SessionNames == {"", "dev"}

\* contents of security.json on a machine
CfgOff == SecurityConfig(FALSE, NoPassword, NoSessions)
CfgGlobal == SecurityConfig(TRUE, PwGlobal, NoSessions)
CfgBoth == SecurityConfig(TRUE, PwGlobal, [n \in {"dev"} |-> PwDev])
BaseConfigs == {CfgOff, CfgGlobal, CfgBoth}

\* values rand.Read can give GenerateNonce
NonceA == [i \in 1..32 |-> i]
NonceB == [i \in 1..32 |-> 255 - 3 * i]
Nonces == {NonceA, NonceB}

\* ------------------------------------------------------------------- yamux
\* the streams of a connection, by the ids the client's Session.Open gives
StreamIDs == {ControlStreamID, DataStreamID}

\* the frame Stream.Write puts on the wire (type data, the length, the bytes)
YamuxData(streamID, payload) ==
    << 0, 0, 0, 0, 0, 0, 0, streamID, 0, 0, 0, Len(payload) >> \o payload

\* a yamux session: the streams whose SYN has come and are not yet accepted,
\* the streams it knows, and what each has received and not yet handed out
NoMux ==
    [state |-> "none", acceptQ |-> <<>>, known |-> {},
     bufs |-> [i \in StreamIDs |-> <<>>]]
NewMux == [NoMux EXCEPT !.state = "up"]
CloseMux(mux) == [mux EXCEPT !.state = "closed"]

\* a SYN frame heads the bytes the yamux session has to read
SynWaiting(avail) ==
    /\ Len(avail) >= YamuxHeaderLen
    /\ avail[1] = 0 /\ avail[2] = 1 /\ avail[4] = 1

\* one turn of the session's receive loop over the socket bytes avail: a SYN
\* queues the stream for Accept, data goes to its stream and is discarded
\* when the session does not know the stream, a read error or a bad header
\* closes the session
MuxRecv(mux, avail, eof) ==
    IF Len(avail) < YamuxHeaderLen THEN
        IF eof THEN [status |-> "err", mux |-> CloseMux(mux), used |-> Len(avail)]
        ELSE [status |-> "block", mux |-> mux, used |-> 0]
    ELSE IF avail[1] # 0 \/ avail[2] > 3 THEN
        [status |-> "err", mux |-> CloseMux(mux), used |-> YamuxHeaderLen]
    ELSE IF SynWaiting(avail) THEN
        [status |-> "ok", used |-> YamuxHeaderLen,
         mux |-> [mux EXCEPT !.known = @ \cup {avail[8]},
                             !.acceptQ = Append(@, avail[8])]]
    ELSE IF avail[2] = 0 THEN
        LET id == avail[8]
            length == avail[12]
        IN  IF Len(avail) < YamuxHeaderLen + length THEN
                IF eof THEN [status |-> "err", mux |-> CloseMux(mux), used |-> Len(avail)]
                ELSE [status |-> "block", mux |-> mux, used |-> 0]
            ELSE [status |-> "ok", used |-> YamuxHeaderLen + length,
                  mux |-> IF id \in mux.known
                          THEN [mux EXCEPT !.bufs[id] =
                                   @ \o SubSeq(avail, YamuxHeaderLen + 1,
                                               YamuxHeaderLen + length)]
                          ELSE mux]
    ELSE [status |-> "ok", mux |-> mux, used |-> YamuxHeaderLen]

\* ------------------------------------------------- geometry records, the PTY
\* the window of the client's terminal after k resizes
SizeAfter(k) == [Rows |-> 24 + 16 * k, Cols |-> 80 + 40 * k]

\* gob.Encoder.Encode of struct{Rows, Cols int}: a message of a length byte
\* and the two values, two bytes each
GobMsgLen == 4
GobEncode(win) ==
    << GobMsgLen, (win.Rows \div 256) % 256, win.Rows % 256,
                  (win.Cols \div 256) % 256, win.Cols % 256 >>

\* gob.Decoder.Decode over the bytes the stream holds
GobDecode(buf) ==
    IF buf = <<>> THEN [status |-> "block", win |-> SizeAfter(0), used |-> 0]
    ELSE IF buf[1] # GobMsgLen THEN [status |-> "err", win |-> SizeAfter(0), used |-> 0]
    ELSE IF Len(buf) < 1 + GobMsgLen THEN [status |-> "block", win |-> SizeAfter(0), used |-> 0]
    ELSE [status |-> "ok", used |-> 1 + GobMsgLen,
          win |-> [Rows |-> buf[2] * 256 + buf[3], Cols |-> buf[4] * 256 + buf[5]]]

\* the pseudo-terminal and the child attached to it
NoPty ==
    [open |-> FALSE, rows |-> 0, cols |-> 0, winch |-> 0, child |-> "none",
     input |-> <<>>]

\* a plausible slip: rows and columns change places
setSizeSwapped(pty, rows, cols) ==
    IF ~pty.open THEN Err
    ELSE Ok([pty EXCEPT !.rows = cols % 65536, !.cols = rows % 65536])

\* setSize: TIOCSWINSZ with ws_row = uint16(rows), ws_col = uint16(cols); the
\* ioctl fails on a closed file
setSize(pty, rows, cols) ==
    IF ~pty.open THEN Err
    ELSE Ok([pty EXCEPT !.rows = rows % 65536, !.cols = cols % 65536])

\* what the user types and what the shell prints during the session
Keystrokes == Asc(<<"q">>)
ShellOutput == Asc(<<"o">>)

\* --------------------------------------------------------------------- state
VARIABLES
    share,   \* the sharing side: share command, Manager.StartShare, the listener
    host,    \* the handler goroutine of the one accepted connection
    client,  \* the joining side: Manager.JoinSession and (Secure)Client.Connect
    c2s,     \* bytes the client has written that the host has not yet read
    s2c,     \* bytes the host has written that the client has not yet read
    events,  \* what has happened on the connection so far (history)
    fn,      \* inputs and results of the security package's functions
    enc,     \* two EncryptedConn endpoints and the records between them
    sess     \* the multiplexer sessions, the PTY and the loops of a connection

vars == << share, host, client, c2s, s2c, events, fn, enc, sess >>

ShareIdle ==
    [status |-> "idle", config |-> CfgOff, inTmux |-> FALSE, listener |-> "none",
     alive |-> TRUE, handlers |-> <<>>, acceptErrors |-> 0,
     portFile |-> <<>>, procs |-> <<>>]

HostIdle ==
    [pc |-> "idle", reader |-> <<>>, nonce |-> <<>>, response |-> <<>>,
     conn |-> NoEncryptedConn, mode |-> <<>>, closed |-> FALSE,
     err |-> "none", sent |-> <<>>, jcatMode |-> <<>>, script |-> <<>>,
     modeRead |-> <<>>]

ClientIdle ==
    [kind |-> "none", pc |-> "idle", reader |-> <<>>, config |-> CfgOff,
     sessionName |-> "", password |-> NoPassword, mode |-> <<>>, nonce |-> <<>>,
     conn |-> NoEncryptedConn, authed |-> FALSE, raw |-> FALSE,
     closed |-> FALSE, result |-> "none",
     handshake |-> <<>>, sent |-> <<>>, script |-> <<>>,
     sessionMode |-> <<>>, override |-> <<>>]

FnIdle ==
    [kind |-> "none", step |-> "idle", p |-> <<>>, q |-> <<>>, n |-> <<>>,
     response |-> Err, verified |-> FALSE,
     ec |-> NewEncryptedConnection(<<>>), peer |-> NewEncryptedConnection(<<>>),
     m |-> <<>>, rec |-> <<>>, count |-> 0, tampered |-> FALSE, pos |-> 0,
     who |-> "none", out |-> Err,
     config |-> CfgOff, name |-> "", password |-> <<>>,
     b |-> <<>>, msg |-> <<>>, parsed |-> Err,
     counterBefore |-> <<>>, encOk |-> FALSE]

EncIdle ==
    [w |-> NoEncryptedConn, r |-> NoEncryptedConn, recs |-> <<>>, sent |-> <<>>,
     sock |-> <<>>, order |-> <<>>, consumed |-> 0, accepted |-> <<>>,
     got |-> <<>>, failed |-> FALSE,
     back |-> <<>>, injected |-> FALSE, lastLen |-> 0, lastUsed |-> 0,
     sizes |-> <<>>]

\* the loops of a connection: on the host the child-wait watcher, the
\* geometry loop and the two copies; on the client the geometry loop and the
\* two copies
HostLoops == {"hwait", "hgeom", "hcpIn", "hcpOut"}
ClientLoops == {"cgeom", "cpStdin", "cpStdout"}

SessIdle ==
    [hmux |-> NoMux, cmux |-> NoMux, control |-> 0, data |-> 0, pty |-> NoPty,
     hwait |-> "none", hgeom |-> "none", hcpIn |-> "none", hcpOut |-> "none",
     win |-> <<>>, done |-> "none", torn |-> FALSE,
     cgeom |-> "none", cpStdin |-> "none", cpStdout |-> "none",
     csig |-> 0, resized |-> 0, typed |-> 0, printed |-> 0,
     stdout |-> <<>>, geomSent |-> <<>>, applied |-> <<>>, cwin |-> <<>>]

\* ------------------------------------------------ cmd/share, Manager.StartShare
\* shareCmd.Run: the security configuration in force for this share
ShareConfig(base, sessionName, shareSecure, sharePassword) ==
    IF ~shareSecure THEN base
    ELSE IF sharePassword = NoPassword THEN [base EXCEPT !.Enabled = TRUE]
    ELSE [base EXCEPT !.Enabled = TRUE,
                      !.SessionPasswords = (sessionName :> sharePassword) @@ @]

\* _internal_jcat_server: jcat.NewServer(...).Start()
InternalJcatServer == "plain"

\* the tail of Manager.StartShare: which server listens on the session's port
StartShare(config, inTmux) ==
    IF inTmux
    THEN IF config.Enabled THEN "secure" ELSE "plain"
    ELSE InternalJcatServer

\* dmux share [session-name] [--secure] [--password p]
Share(base, sessionName, shareSecure, sharePassword, inTmux) ==
    /\ share.status = "idle"
    /\ IF shareSecure /\ sharePassword = NoPassword /\ base.GlobalPassword = NoPassword
       THEN share' = [share EXCEPT !.status = "refused"]
       ELSE LET config == ShareConfig(base, sessionName, shareSecure, sharePassword)
            IN  share' = [share EXCEPT !.status = "sharing", !.config = config,
                                       !.inTmux = inTmux,
                                       !.listener = StartShare(config, inTmux)]
    /\ UNCHANGED << host, client, c2s, s2c, events, fn, enc, sess >>

\* ------------------------------------------------------ Manager.JoinSession
\* the remote branch of JoinSession up to net.Dial; the listener accepts and
\* starts the handler goroutine
\* the mode recorded for the session in its session file (empty when the file
\* has none, any string otherwise) and the override of the join command
\* (--view, --rogue or neither)
SessionModes == {<<>>} \cup ClientModes
ModeOverrides == {<<>>, ModeView, ModeRogue}

\* a plausible slip: the session's mode wins over the override
ActualModeSessionFirst(sessionMode, modeOverride) ==
    IF sessionMode # <<>> THEN sessionMode
    ELSE IF modeOverride # <<>> THEN modeOverride
    ELSE ModePair

\* actualMode of JoinSession
ActualMode(sessionMode, modeOverride) ==
    LET actualMode == IF modeOverride # <<>> THEN modeOverride ELSE sessionMode
    IN  IF actualMode = <<>> THEN ModePair ELSE actualMode

Join(config, sessionName, password, sessionMode, modeOverride) ==
    /\ share.status = "sharing"
    /\ client.pc = "idle"
    /\ client' = [client EXCEPT !.kind = IF config.Enabled THEN "secure" ELSE "plain",
                                !.pc = "readHandshake",
                                !.config = config,
                                !.sessionName = sessionName,
                                !.password = password,
                                !.sessionMode = sessionMode,
                                !.override = modeOverride,
                                !.mode = ActualMode(sessionMode, modeOverride)]
    /\ host' = [host EXCEPT !.pc = "accepted"]
    /\ UNCHANGED << share, c2s, s2c, events, fn, enc, sess >>

\* ------------------------------------------------------- a peer of any kind
\* the response of a peer that knows the global password, and the record
\* that carries its MODE line
GoodResponse == FormatResponseMessage(GenerateAuthResponse(PwGlobal, NonceA).val)
GoodRecord ==
    ConnWrite(NewEncryptedConn(DeriveSessionKey(PwGlobal, NonceA).val),
              ModeMsg(ModePair)).bytes

\* what such a peer may send in place of the record: a length prefix of zero,
\* the record without its last bytes, the record with one bit flipped
BadFrames ==
    { << 0, 0, 0, 0 >>,
      Take(GoodRecord, Len(GoodRecord) - 3),
      [GoodRecord EXCEPT ![Len(GoodRecord)] = FlipBit(@, 0)] }

\* what a peer that is not this program's client may send to the listener: an
\* unsupported method, a line that is no AUTH line, an empty method, the
\* method without the prefix, the method in another case or after a space,
\* the AUTH line with a carriage return, a response that is not
\* base64, a line that is no RESPONSE line, a well-formed response to no
\* configured password, and a good response followed by a bad frame
PeerScripts ==
    { << AuthMsg, GoodResponse, frame >> : frame \in BadFrames } \cup
    { << Asc(<<"A","U","T","H",":","t","o","k","e","n","\n">>) >>,
      << Asc(<<"H","E","L","L","O","\n">>) >>,
      << Asc(<<"A","U","T","H",":","\n">>) >>,
      << Asc(<<"p","a","s","s","w","o","r","d","\n">>) >>,
      << Asc(<<"A","U","T","H",":","P","a","s","s","w","o","r","d","\n">>) >>,
      << Asc(<<"A","U","T","H",":"," ","p","a","s","s","w","o","r","d","\n">>) >>,
      << Asc(<<"A","U","T","H",":","p","a","s","s","w","o","r","d","\r","\n">>) >>,
      << AuthMsg, Asc(<<"R","E","S","P","O","N","S","E",":","!","\n">>) >>,
      << AuthMsg, Asc(<<"R","E","S","P","\n">>) >>,
      << AuthMsg, FormatResponseMessage(GenerateAuthResponse(PwWrong, NonceA).val) >> }

\* ln.Accept() returns the connection of such a peer
Dial(script) ==
    /\ share.status = "sharing"
    /\ client.pc = "idle"
    /\ client' = [client EXCEPT !.kind = "peer", !.pc = "peer", !.script = script]
    /\ host' = [host EXCEPT !.pc = "accepted"]
    /\ UNCHANGED << share, c2s, s2c, events, fn, enc, sess >>

\* the peer sends its next line; after the last it is done and hangs up
PeerWrite ==
    /\ client.kind = "peer"
    /\ client.pc = "peer"
    /\ c2s' = c2s \o Head(client.script)
    /\ client' = [client EXCEPT !.script = Tail(client.script),
                                !.sent = @ \o Head(client.script),
                                !.pc = IF Len(client.script) = 1 THEN "done" ELSE "peer"]
    /\ UNCHANGED << share, host, s2c, events, fn, enc, sess >>

\* what a listener that is not this program's server may send as its
\* handshake: the secure line with a carriage return or with leading and
\* trailing spaces, the plain line with a trailing space or a carriage
\* return, the line of another version
ServerScripts ==
    { << Asc(<<"J","C","A","T","/","2",".","0",".","0","+","S","E","C","\r","\n">>) >>,
      << Asc(<<" ","J","C","A","T","/","2",".","0",".","0","+","S","E","C"," ","\n">>) >>,
      << Asc(<<"J","C","A","T","/","2",".","0",".","0"," ","\n">>) >>,
      << Asc(<<"J","C","A","T","/","2",".","0",".","0","\r","\n">>) >>,
      << Asc(<<"J","C","A","T","/","2",".","0",".","1","\n">>) >> }

\* JoinSession dials a port on which such a listener answers
JoinPeer(config, script) ==
    /\ share.status = "idle"
    /\ client.pc = "idle"
    /\ share' = [share EXCEPT !.status = "peer"]
    /\ client' = [client EXCEPT !.kind = IF config.Enabled THEN "secure" ELSE "plain",
                                !.pc = "readHandshake",
                                !.config = config,
                                !.mode = ActualMode(<<>>, <<>>)]
    /\ host' = [host EXCEPT !.pc = "peer", !.script = script]
    /\ UNCHANGED << c2s, s2c, events, fn, enc, sess >>

\* the listener sends its next line; after the last it hangs up
PeerServerWrite ==
    /\ host.pc = "peer"
    /\ s2c' = s2c \o Head(host.script)
    /\ host' = [host EXCEPT !.script = Tail(host.script),
                            !.sent = @ \o Head(host.script),
                            !.pc = IF Len(host.script) = 1 THEN "done" ELSE "peer",
                            !.closed = Len(host.script) = 1]
    /\ UNCHANGED << share, client, c2s, events, fn, enc, sess >>

\* ------------------------------------------------------------ error exits
\* a plausible slip: the socket is left open
HostFailOpen(h, err) == [h EXCEPT !.pc = "done", !.err = err]

\* performServerHandshake returned an error: handleSecure closes the socket
HostFail(h, err) == [h EXCEPT !.pc = "done", !.closed = TRUE, !.err = err]

\* performClientHandshake returned an error: SecureClient.Connect closes the
\* socket and returns the error
ClientFail(c) == [c EXCEPT !.pc = "done", !.closed = TRUE, !.result = "err"]

\* ------------------------------------- SecureServer.performServerHandshake
\* conn.Write(SecureHandshakeMsg)
SecureHostSendHandshake ==
    /\ share.listener = "secure"
    /\ host.pc = "accepted"
    /\ s2c' = s2c \o SecureHandshakeMsg
    /\ host' = [host EXCEPT !.pc = "readAuth", !.sent = @ \o SecureHandshakeMsg]
    /\ events' = events \cup {"h_handshake"}
    /\ UNCHANGED << share, client, c2s, fn, enc, sess >>

\* read "AUTH:<method>", generate the nonce, send the challenge
SecureHostReadAuth ==
    /\ share.listener = "secure"
    /\ host.pc = "readAuth"
    /\ LET r == ReadString(host.reader, c2s, client.closed)
           method == ParseAuthMessage(r.line)
       IN  /\ r.status # "block"
           /\ c2s' = Drop(c2s, r.used)
           /\ IF r.status = "err" \/ ~method.ok \/ method.val # AuthMethodPassword
              THEN /\ host' = HostFail([host EXCEPT !.reader = r.reader],
                                       IF r.status = "err" THEN "read" ELSE "method")
                   /\ UNCHANGED << s2c, events >>
              ELSE \E nonce \in Nonces :
                   /\ host' = [host EXCEPT !.reader = r.reader, !.nonce = nonce,
                                           !.sent = @ \o FormatChallengeMessage(nonce),
                                           !.pc = "readResponse"]
                   /\ s2c' = s2c \o FormatChallengeMessage(nonce)
                   /\ events' = events \cup {"h_challenge"}
    /\ UNCHANGED << share, client, fn, enc, sess >>

\* the candidates the host tries, in two rounds: GetPasswordForSession("") when
\* it is not empty, then every entry of SessionPasswords
GlobalCandidates(config) ==
    IF GetPasswordForSession(config, "") # NoPassword
    THEN {GetPasswordForSession(config, "")} ELSE {}
SessionCandidates(config) ==
    {config.SessionPasswords[n] : n \in DOMAIN config.SessionPasswords}

\* a plausible slip: the key is derived from a candidate other than the one
\* whose response verified
AuthenticatingAnyCandidate(config, nonce, response) ==
    IF \E pw \in GlobalCandidates(config) \cup SessionCandidates(config) :
          VerifyAuthResponse(pw, nonce, response)
    THEN GlobalCandidates(config) \cup SessionCandidates(config)
    ELSE {}

\* the passwords with which the received response verifies: the first round's
\* if there is one, otherwise the second round's (the map is ranged over in
\* any order and the loop stops at the first that verifies)
Authenticating(config, nonce, response) ==
    LET g == {pw \in GlobalCandidates(config) : VerifyAuthResponse(pw, nonce, response)}
        s == {pw \in SessionCandidates(config) : VerifyAuthResponse(pw, nonce, response)}
    IN  IF g # {} THEN g ELSE s

\* read "RESPONSE:<b64>", verify it, answer AUTH_OK or AUTH_FAIL
SecureHostReadResponse ==
    /\ share.listener = "secure"
    /\ host.pc = "readResponse"
    /\ LET r == ReadString(host.reader, c2s, client.closed)
           response == ParseResponseMessage(r.line)
       IN  /\ r.status # "block"
           /\ c2s' = Drop(c2s, r.used)
           /\ IF r.status = "err" \/ ~response.ok
              THEN /\ host' = HostFail([host EXCEPT !.reader = r.reader],
                                       IF r.status = "err" THEN "read" ELSE "response")
                   /\ UNCHANGED << s2c, events >>
              ELSE LET oks == Authenticating(share.config, host.nonce, response.val)
                   IN  IF oks = {}
                       THEN /\ s2c' = s2c \o AuthFailMsg
                            /\ host' = HostFail([host EXCEPT !.reader = r.reader,
                                                             !.sent = @ \o AuthFailMsg,
                                                             !.response = response.val],
                                                "nomatch")
                            /\ events' = events \cup {"h_response", "h_auth_fail"}
                       ELSE \E pw \in oks :
                            /\ s2c' = s2c \o AuthOkMsg
                            /\ host' = [host EXCEPT
                                         !.reader = r.reader,
                                         !.sent = @ \o AuthOkMsg,
                                         !.response = response.val,
                                         !.conn = NewEncryptedConn(
                                                    DeriveSessionKey(pw, host.nonce).val),
                                         !.pc = "readMode"]
                            /\ events' = events \cup {"h_response", "h_auth_ok"}
    /\ UNCHANGED << share, client, fn, enc, sess >>

\* SecureServer.continueWithEncryptedConnection: logs and returns
HostContinueWithEncryptedConnection(h) == [h EXCEPT !.pc = "done"]

\* encryptedConn.Read(modeBuffer), the mode parse, and handleSecure's call of
\* continueWithEncryptedConnection
SecureHostReadMode ==
    /\ share.listener = "secure"
    /\ host.pc = "readMode"
    /\ LET r == ConnRead(host.conn, c2s, ReadBufSize, client.closed)
       IN  /\ r.status # "block"
           /\ c2s' = Drop(c2s, r.used)
           /\ IF r.status = "err"
              THEN /\ host' = HostFail([host EXCEPT !.conn = r.ec], "mode")
                   /\ UNCHANGED events
              ELSE /\ host' = HostContinueWithEncryptedConnection(
                                 [host EXCEPT !.conn = r.ec, !.mode = ParseMode(r.data)])
                   /\ events' = events \cup {"h_mode"}
    /\ UNCHANGED << share, client, s2c, fn, enc, sess >>

\* ------------------------------------- SecureClient.performClientHandshake
\* read the handshake line, compare it, send "AUTH:password"
SecureClientReadHandshake ==
    /\ client.kind = "secure"
    /\ client.pc = "readHandshake"
    /\ LET r == ReadString(client.reader, s2c, host.closed)
       IN  /\ r.status # "block"
           /\ s2c' = Drop(s2c, r.used)
           /\ IF r.status = "err" \/ TrimSpace(r.line) # TrimSpace(SecureHandshakeMsg)
              THEN /\ client' = ClientFail([client EXCEPT !.reader = r.reader,
                                                          !.handshake = r.line])
                   /\ UNCHANGED << c2s, events >>
              ELSE /\ client' = [client EXCEPT !.reader = r.reader,
                                               !.handshake = r.line,
                                               !.sent = @ \o AuthMsg,
                                               !.pc = "readChallenge"]
                   /\ c2s' = c2s \o AuthMsg
                   /\ events' = events \cup {"c_auth"}
    /\ UNCHANGED << share, host, fn, enc, sess >>

\* read the challenge, choose the password, send the response
SecureClientReadChallenge ==
    /\ client.kind = "secure"
    /\ client.pc = "readChallenge"
    /\ LET r == ReadString(client.reader, s2c, host.closed)
           nonce == ParseChallengeMessage(r.line)
           password == IF client.password = NoPassword
                       THEN GetPasswordForSession(client.config, client.sessionName)
                       ELSE client.password
           response == GenerateAuthResponse(password, nonce.val)
       IN  /\ r.status # "block"
           /\ s2c' = Drop(s2c, r.used)
           /\ IF \/ r.status = "err"
                 \/ ~nonce.ok
                 \/ password = NoPassword
                 \/ ~response.ok
              THEN /\ client' = ClientFail([client EXCEPT !.reader = r.reader])
                   /\ UNCHANGED << c2s, events >>
              ELSE /\ client' = [client EXCEPT !.reader = r.reader,
                                               !.nonce = nonce.val,
                                               !.password = password,
                                               !.sent = @ \o FormatResponseMessage(response.val),
                                               !.pc = "readResult"]
                   /\ c2s' = c2s \o FormatResponseMessage(response.val)
                   /\ events' = events \cup {"c_response"}
    /\ UNCHANGED << share, host, fn, enc, sess >>

\* SecureClient.continueWithEncryptedConnection: returns an error, which
\* Connect returns to its caller (the socket is not closed on this path)
ClientContinueWithEncryptedConnection(c) == [c EXCEPT !.pc = "done", !.result = "err"]

\* read the result, derive the session key, send the mode in a record, and
\* Connect's call of continueWithEncryptedConnection
SecureClientReadResult ==
    /\ client.kind = "secure"
    /\ client.pc = "readResult"
    /\ LET r == ReadString(client.reader, s2c, host.closed)
           sessionKey == DeriveSessionKey(client.password, client.nonce)
           w == ConnWrite(NewEncryptedConn(sessionKey.val), ModeMsg(client.mode))
       IN  /\ r.status # "block"
           /\ s2c' = Drop(s2c, r.used)
           /\ IF \/ r.status = "err"
                 \/ TrimSpace(r.line) # TrimSpace(AuthOkMsg)
                 \/ ~sessionKey.ok
              THEN /\ client' = ClientFail([client EXCEPT !.reader = r.reader])
                   /\ UNCHANGED << c2s, events >>
              ELSE /\ client' = ClientContinueWithEncryptedConnection(
                                   [client EXCEPT !.reader = r.reader,
                                                  !.authed = TRUE,
                                                  !.conn = w.ec,
                                                  !.sent = @ \o w.bytes])
                   /\ c2s' = c2s \o w.bytes
                   /\ events' = events \cup {"c_authed", "c_mode"}
    /\ UNCHANGED << share, host, fn, enc, sess >>

\* ------------------------------------------------ Client.Connect, runClient
\* an error return of Client.Connect: the deferred term.Restore runs (the
\* socket is left to the process exit)
ClientReturnErr(c) == [c EXCEPT !.pc = "done", !.result = "err", !.raw = FALSE]

\* log.Fatalf in runClient: the process exits at once, deferred calls do not
\* run
LogFatal(c) == [c EXCEPT !.pc = "done", !.result = "err", !.closed = TRUE]

\* the error exit of the client in use
ClientError(c) == IF c.kind = "jcat" THEN LogFatal(c) ELSE ClientReturnErr(c)

\* what the client writes after the handshake: Client.Connect its MODE line,
\* runClient nothing
ClientModeLine(c) == IF c.kind = "jcat" THEN <<>> ELSE ModeMsg(c.mode)

\* a plausible slip: the client goes on whatever the listener sent
AcceptsHandshakeAny(handshake) == TRUE

\* string(handshake) == HandshakeMsg
AcceptsHandshake(handshake) == handshake = HandshakeMsg

\* io.ReadFull of len(HandshakeMsg) bytes, the comparison, the MODE line
PlainClientReadHandshake ==
    /\ client.kind \in {"plain", "jcat"}
    /\ client.pc = "readHandshake"
    /\ LET r == ReadFull(s2c, Len(HandshakeMsg), host.closed)
       IN  /\ r.status # "block"
           /\ s2c' = Drop(s2c, r.used)
           /\ IF r.status = "err" \/ ~AcceptsHandshake(r.data)
              THEN /\ client' = ClientError([client EXCEPT !.handshake = r.data])
                   /\ UNCHANGED << c2s, events >>
              ELSE /\ client' = [client EXCEPT !.pc = "mux", !.handshake = r.data,
                                               !.sent = @ \o ClientModeLine(client)]
                   /\ c2s' = c2s \o ClientModeLine(client)
                   /\ events' = IF client.kind = "jcat" THEN events
                                ELSE events \cup {"c_mode"}
    /\ UNCHANGED << share, host, fn, enc, sess >>

\* yamux.Client, term.IsTerminal, term.MakeRaw
PlainClientMux ==
    /\ client.kind \in {"plain", "jcat"}
    /\ client.pc = "mux"
    /\ \E isTerminal \in BOOLEAN :
         IF isTerminal
         THEN client' = [client EXCEPT !.pc = "openControl", !.raw = TRUE]
         ELSE client' = ClientError(client)
    /\ sess' = [sess EXCEPT !.cmux = NewMux]
    /\ events' = events \cup {"c_mux"}
    /\ UNCHANGED << share, host, c2s, s2c, fn, enc >>

\* controlChannel, err := session.Open(); the geometry goroutine starts
PlainClientOpenControl ==
    /\ client.kind \in {"plain", "jcat"}
    /\ client.pc = "openControl"
    /\ IF sess.cmux.state = "up"
       THEN /\ c2s' = c2s \o YamuxSyn(ControlStreamID)
            /\ client' = [client EXCEPT !.pc = "openData",
                                        !.sent = @ \o YamuxSyn(ControlStreamID)]
            /\ sess' = [sess EXCEPT !.cmux.known = @ \cup {ControlStreamID},
                                    !.cgeom = "getsize"]
            /\ events' = events \cup {"c_stream"}
       ELSE /\ client' = ClientError(client)
            /\ UNCHANGED << c2s, sess, events >>
    /\ UNCHANGED << share, host, s2c, fn, enc >>

\* dataChannel, err := session.Open(); the copy loops start
PlainClientOpenData ==
    /\ client.kind \in {"plain", "jcat"}
    /\ client.pc = "openData"
    /\ IF sess.cmux.state = "up"
       THEN /\ c2s' = c2s \o YamuxSyn(DataStreamID)
            /\ client' = [client EXCEPT !.pc = "waitDone",
                                        !.sent = @ \o YamuxSyn(DataStreamID)]
            /\ sess' = [sess EXCEPT !.cmux.known = @ \cup {DataStreamID},
                                    !.cpStdin = "run", !.cpStdout = "run"]
       ELSE /\ client' = ClientError(client)
            /\ UNCHANGED << c2s, sess >>
    /\ UNCHANGED << share, host, s2c, events, fn, enc >>

\* the client's yamux receive loop
ClientMuxRecv ==
    /\ sess.cmux.state = "up"
    /\ client.pc # "done"
    /\ LET r == MuxRecv(sess.cmux, s2c, host.closed)
       IN  /\ r.status # "block"
           /\ s2c' = Drop(s2c, r.used)
           /\ sess' = [sess EXCEPT !.cmux = r.mux]
           /\ client' = [client EXCEPT !.closed = (r.status = "err")]
    /\ UNCHANGED << share, host, c2s, events, fn, enc >>

\* the geometry goroutine: term.GetSize and w.Encode(win)
ClientGeometry ==
    /\ sess.cgeom = "getsize"
    /\ client.pc # "done"
    /\ LET win == SizeAfter(sess.resized)
           frame == YamuxData(ControlStreamID, GobEncode(win))
       IN  IF sess.cmux.state = "up"
           THEN /\ c2s' = c2s \o frame
                /\ client' = [client EXCEPT !.sent = @ \o frame]
                /\ sess' = [sess EXCEPT !.cgeom = "waitsig",
                                        !.geomSent = Append(@, win)]
           ELSE /\ sess' = [sess EXCEPT !.cgeom = "send"]
                /\ UNCHANGED << c2s, client >>
    /\ UNCHANGED << share, host, s2c, events, fn, enc >>

\* the geometry goroutine: <-c
ClientSigwinch ==
    /\ sess.cgeom = "waitsig"
    /\ client.pc # "done"
    /\ sess.csig = 1
    /\ sess' = [sess EXCEPT !.csig = 0, !.cgeom = "getsize"]
    /\ UNCHANGED << share, host, client, c2s, s2c, events, fn, enc >>

\* the geometry goroutine in two steps: term.GetSize(stdin) ...
ClientGetSize ==
    /\ sess.cgeom = "getsize"
    /\ client.pc # "done"
    /\ sess' = [sess EXCEPT !.cwin = << SizeAfter(sess.resized) >>, !.cgeom = "encode"]
    /\ UNCHANGED << share, host, client, c2s, s2c, events, fn, enc >>

\* ... and w.Encode(win)
ClientEncode ==
    /\ sess.cgeom = "encode"
    /\ client.pc # "done"
    /\ LET frame == YamuxData(ControlStreamID, GobEncode(sess.cwin[1]))
       IN  IF sess.cmux.state = "up"
           THEN /\ c2s' = c2s \o frame
                /\ client' = [client EXCEPT !.sent = @ \o frame]
                /\ sess' = [sess EXCEPT !.cgeom = "waitsig", !.cwin = <<>>,
                                        !.geomSent = Append(@, sess.cwin[1])]
           ELSE /\ sess' = [sess EXCEPT !.cgeom = "send"]
                /\ UNCHANGED << c2s, client >>
    /\ UNCHANGED << share, host, s2c, events, fn, enc >>

\* a plausible slip: the channel has no buffer, so that a signal is dropped
\* unless the goroutine is waiting in <-c
WindowResizeUnbuffered(n) ==
    /\ client.raw
    /\ client.pc # "done"
    /\ sess.resized < n
    /\ sess' = [sess EXCEPT !.resized = @ + 1,
                            !.csig = IF sess.cgeom = "waitsig" THEN 1 ELSE @]
    /\ UNCHANGED << share, host, client, c2s, s2c, events, fn, enc >>

\* the user resizes the terminal, at most n times: SIGWINCH goes to the
\* channel of capacity 1 once signal.Notify has registered it, and is dropped
\* when the channel is full
WindowResizeUpTo(n) ==
    /\ client.raw
    /\ client.pc # "done"
    /\ sess.resized < n
    /\ sess' = [sess EXCEPT !.resized = @ + 1,
                            !.csig = IF sess.cgeom \in {"getsize", "encode", "waitsig"}
                                     THEN 1 ELSE @]
    /\ UNCHANGED << share, host, client, c2s, s2c, events, fn, enc >>

WindowResize == WindowResizeUpTo(MaxResize)
WindowBurst == WindowResizeUpTo(MaxBurst)

\* io.Copy(dataChannel, os.Stdin): the user types a key, the copy writes it
ClientCopyStdin ==
    /\ sess.cpStdin = "run"
    /\ client.pc # "done"
    /\ sess.typed < Len(Keystrokes)
    /\ LET frame == YamuxData(DataStreamID, << Keystrokes[sess.typed + 1] >>)
       IN  IF sess.cmux.state = "up"
           THEN /\ c2s' = c2s \o frame
                /\ client' = [client EXCEPT !.sent = @ \o frame]
                /\ sess' = [sess EXCEPT !.typed = @ + 1]
           ELSE /\ sess' = [sess EXCEPT !.typed = @ + 1, !.cpStdin = "send"]
                /\ UNCHANGED << c2s, client >>
    /\ UNCHANGED << share, host, s2c, events, fn, enc >>

\* io.Copy(os.Stdout, dataChannel)
ClientCopyStdout ==
    /\ sess.cpStdout = "run"
    /\ client.pc # "done"
    /\ IF sess.cmux.bufs[DataStreamID] # <<>>
       THEN sess' = [sess EXCEPT !.stdout = @ \o sess.cmux.bufs[DataStreamID],
                                 !.cmux.bufs[DataStreamID] = <<>>]
       ELSE /\ sess.cmux.state = "closed"
            /\ sess' = [sess EXCEPT !.cpStdout = "send"]
    /\ UNCHANGED << share, host, client, c2s, s2c, events, fn, enc >>

\* <-done, session.Close(), the return with the deferred term.Restore
ClientTeardown ==
    /\ client.pc = "waitDone"
    /\ \E g \in ClientLoops :
         /\ sess[g] = "send"
         /\ sess' = [sess EXCEPT ![g] = "end", !.cmux = CloseMux(@)]
    /\ client' = [client EXCEPT !.pc = "done", !.result = "ok", !.closed = TRUE,
                                !.raw = FALSE]
    /\ UNCHANGED << share, host, c2s, s2c, events, fn, enc >>

\* the joining process exits after Connect has returned: its socket is closed
ClientExit ==
    /\ client.pc = "done"
    /\ ~client.closed
    /\ client' = [client EXCEPT !.closed = TRUE]
    /\ UNCHANGED << share, host, c2s, s2c, events, fn, enc, sess >>

\* ----------------------------------------- Server.handle, handle of jcat.go
\* a return of the handler (nothing is closed on an error return)
HostReturn(h) == [h EXCEPT !.pc = "done"]

\* conn.Write(HandshakeMsg); in jcat.go yamux.Server follows at once
PlainHostSendHandshake ==
    /\ share.listener \in {"plain", "jcat"}
    /\ host.pc = "accepted"
    /\ s2c' = s2c \o HandshakeMsg
    /\ IF share.listener = "jcat"
       THEN /\ host' = [host EXCEPT !.pc = "pty", !.sent = @ \o HandshakeMsg]
            /\ sess' = [sess EXCEPT !.hmux = NewMux]
            /\ events' = events \cup {"h_handshake", "h_mux"}
       ELSE /\ host' = [host EXCEPT !.pc = "readMode", !.sent = @ \o HandshakeMsg]
            /\ events' = events \cup {"h_handshake"}
            /\ UNCHANGED sess
    /\ UNCHANGED << share, client, c2s, fn, enc >>

\* conn.Read(modeBuffer), the mode parse, yamux.Server
PlainHostReadMode ==
    /\ share.listener = "plain"
    /\ host.pc = "readMode"
    /\ IF c2s = <<>>
       THEN /\ client.closed
            /\ host' = HostReturn(host)
            /\ UNCHANGED << c2s, events, sess >>
       ELSE LET n == Min(ReadBufSize, Len(c2s))
            IN  /\ host' = [host EXCEPT !.mode = ParseMode(Take(c2s, n)),
                                        !.modeRead = Take(c2s, n), !.pc = "pty"]
                /\ c2s' = Drop(c2s, n)
                /\ sess' = [sess EXCEPT !.hmux = NewMux]
                /\ events' = events \cup {"h_mode", "h_mux"}
    /\ UNCHANGED << share, client, s2c, fn, enc >>

\* pty.Start(cmd) and the goroutine waiting for the child
PlainHostStartPty ==
    /\ share.listener \in {"plain", "jcat"}
    /\ host.pc = "pty"
    /\ \E started \in BOOLEAN :
         IF started
         THEN /\ host' = [host EXCEPT !.pc = "acceptControl", !.jcatMode = host.mode]
              /\ sess' = [sess EXCEPT !.pty = [NoPty EXCEPT !.open = TRUE,
                                                            !.child = "running"],
                                      !.hwait = "run"]
              /\ events' = events \cup {"h_shell"}
         ELSE /\ host' = HostReturn(host)
              /\ UNCHANGED << events, sess >>
    /\ UNCHANGED << share, client, c2s, s2c, fn, enc >>

\* the host's yamux receive loop; an error closes the session and the socket
HostMuxRecv ==
    /\ sess.hmux.state = "up"
    /\ host.pc # "killed"
    /\ LET r == MuxRecv(sess.hmux, c2s, client.closed)
       IN  /\ r.status # "block"
           /\ c2s' = Drop(c2s, r.used)
           /\ sess' = [sess EXCEPT !.hmux = r.mux]
           /\ host' = [host EXCEPT !.closed = (@ \/ r.status = "err")]
    /\ UNCHANGED << share, client, s2c, events, fn, enc >>

\* session.Accept() for the control stream, then for the data stream; the
\* geometry goroutine starts after the first, the copies after the second
PlainHostAccept ==
    /\ share.listener \in {"plain", "jcat"}
    /\ host.pc \in {"acceptControl", "acceptData"}
    /\ IF sess.hmux.acceptQ # <<>>
       THEN LET id == Head(sess.hmux.acceptQ)
            IN  /\ IF host.pc = "acceptControl"
                   THEN /\ host' = [host EXCEPT !.pc = "acceptData"]
                        /\ sess' = [sess EXCEPT !.hmux.acceptQ = Tail(@),
                                                !.control = id, !.hgeom = "decode"]
                   ELSE /\ host' = [host EXCEPT !.pc = "waitDone"]
                        /\ sess' = [sess EXCEPT !.hmux.acceptQ = Tail(@),
                                                !.data = id,
                                                !.hcpIn = "run", !.hcpOut = "run"]
                /\ events' = events \cup {"h_stream"}
       ELSE /\ sess.hmux.state = "closed"
            /\ host' = HostReturn(host)
            /\ UNCHANGED << events, sess >>
    /\ UNCHANGED << share, client, c2s, s2c, fn, enc >>

\* the shell exits
ChildExit ==
    /\ sess.pty.child = "running"
    /\ sess' = [sess EXCEPT !.pty.child = "exited"]
    /\ UNCHANGED << share, host, client, c2s, s2c, events, fn, enc >>

\* cmd.Wait() returns
HostWait ==
    /\ sess.hwait = "run"
    /\ host.pc # "killed"
    /\ sess.pty.child = "exited"
    /\ sess' = [sess EXCEPT !.hwait = "send", !.pty.child = "reaped"]
    /\ UNCHANGED << share, host, client, c2s, s2c, events, fn, enc >>

\* the geometry loop: r.Decode(&win)
HostGeometryDecode ==
    /\ sess.hgeom = "decode"
    /\ host.pc # "killed"
    /\ LET r == GobDecode(sess.hmux.bufs[sess.control])
       IN  IF r.status = "ok"
           THEN sess' = [sess EXCEPT !.hmux.bufs[sess.control] = Drop(@, r.used),
                                     !.win = << r.win >>, !.hgeom = "setsize"]
           ELSE /\ r.status = "err" \/ sess.hmux.state = "closed"
                /\ sess' = [sess EXCEPT !.hgeom = "send"]
    /\ UNCHANGED << share, host, client, c2s, s2c, events, fn, enc >>

\* the geometry loop: setSize(shellPty, win.Rows, win.Cols)
HostSetSize ==
    /\ sess.hgeom = "setsize"
    /\ host.pc # "killed"
    /\ LET r == setSize(sess.pty, sess.win[1].Rows, sess.win[1].Cols)
       IN  IF r.ok
           THEN sess' = [sess EXCEPT !.pty = r.val, !.hgeom = "kill",
                                     !.applied = Append(@, sess.win[1])]
           ELSE sess' = [sess EXCEPT !.hgeom = "send"]
    /\ UNCHANGED << share, host, client, c2s, s2c, events, fn, enc >>

\* the geometry loop: syscall.Kill(cmd.Process.Pid, syscall.SIGWINCH); there
\* is no such process once cmd.Wait has reaped the child
HostKill ==
    /\ sess.hgeom = "kill"
    /\ host.pc # "killed"
    /\ IF sess.pty.child \in {"running", "exited"}
       THEN sess' = [sess EXCEPT !.pty.winch = @ + 1, !.win = <<>>, !.hgeom = "decode"]
       ELSE sess' = [sess EXCEPT !.hgeom = "send"]
    /\ UNCHANGED << share, host, client, c2s, s2c, events, fn, enc >>

\* io.Copy(shellPty, dataChannel)
HostCopyIn ==
    /\ sess.hcpIn = "run"
    /\ host.pc # "killed"
    /\ IF sess.hmux.bufs[sess.data] # <<>>
       THEN IF sess.pty.open
            THEN sess' = [sess EXCEPT !.pty.input = @ \o sess.hmux.bufs[sess.data],
                                      !.hmux.bufs[sess.data] = <<>>]
            ELSE sess' = [sess EXCEPT !.hcpIn = "send"]
       ELSE /\ sess.hmux.state = "closed"
            /\ sess' = [sess EXCEPT !.hcpIn = "send"]
    /\ UNCHANGED << share, host, client, c2s, s2c, events, fn, enc >>

\* io.Copy(dataChannel, shellPty): the shell prints a byte and the copy
\* writes it to the stream, or the read of the PTY fails (closed, or the
\* child gone), or the write to the stream fails
HostCopyOut ==
    /\ sess.hcpOut = "run"
    /\ host.pc # "killed"
    /\ IF sess.pty.open /\ sess.pty.child = "running"
       THEN /\ sess.printed < Len(ShellOutput)
            /\ LET frame == YamuxData(sess.data, << ShellOutput[sess.printed + 1] >>)
               IN  IF sess.hmux.state = "up"
                   THEN /\ s2c' = s2c \o frame
                        /\ host' = [host EXCEPT !.sent = @ \o frame]
                        /\ sess' = [sess EXCEPT !.printed = @ + 1]
                   ELSE /\ sess' = [sess EXCEPT !.printed = @ + 1, !.hcpOut = "send"]
                        /\ UNCHANGED << s2c, host >>
       ELSE /\ sess' = [sess EXCEPT !.hcpOut = "send"]
            /\ UNCHANGED << s2c, host >>
    /\ UNCHANGED << share, client, c2s, events, fn, enc >>

\* <-done takes the completion of one of the loops; then shellPty.Close(),
\* session.Close() and the return
HostTeardown ==
    /\ host.pc = "waitDone"
    /\ \E g \in HostLoops :
         /\ sess[g] = "send"
         /\ sess' = [sess EXCEPT ![g] = "end", !.done = g, !.pty.open = FALSE,
                                 !.hmux = CloseMux(@), !.torn = TRUE]
    /\ host' = [host EXCEPT !.pc = "done", !.closed = TRUE]
    /\ UNCHANGED << share, client, c2s, s2c, events, fn, enc >>

\* stopSession kills the listening process: its sockets are closed, its
\* goroutines are gone (taken up to the second Accept: from then on the
\* client sees of a kill what it sees of the handler's session.Close())
ListenerKilled ==
    /\ host.pc \in {"accepted", "readMode", "pty", "acceptControl", "acceptData"}
    /\ host' = [host EXCEPT !.pc = "killed", !.closed = TRUE]
    /\ sess' = [sess EXCEPT !.hmux = IF @.state = "up" THEN CloseMux(@) ELSE @]
    /\ UNCHANGED << share, client, c2s, s2c, events, fn, enc >>

\* ------------------------------------------------------------- specification
NoFn == fn = FnIdle
NoEnc == enc = EncIdle
NoSess == sess = SessIdle

Init ==
    /\ share = ShareIdle
    /\ host = HostIdle
    /\ client = ClientIdle
    /\ c2s = <<>>
    /\ s2c = <<>>
    /\ events = {}
    /\ NoFn
    /\ NoEnc
    /\ NoSess

Next ==
    \/ \E base \in BaseConfigs, name \in SessionNames, secure \in BOOLEAN,
          pw \in {NoPassword, PwShare}, inTmux \in BOOLEAN :
            Share(base, name, secure, pw, inTmux)
    \/ \E config \in BaseConfigs, name \in SessionNames,
          pw \in {NoPassword} \cup Passwords,
          sessionMode \in SessionModes, modeOverride \in ModeOverrides :
            Join(config, name, pw, sessionMode, modeOverride)
    \/ \E script \in PeerScripts : Dial(script)
    \/ PeerWrite
    \/ \E config \in {CfgOff, CfgGlobal}, script \in ServerScripts : JoinPeer(config, script)
    \/ PeerServerWrite
    \/ SecureHostSendHandshake
    \/ SecureHostReadAuth
    \/ SecureHostReadResponse
    \/ SecureHostReadMode
    \/ SecureClientReadHandshake
    \/ SecureClientReadChallenge
    \/ SecureClientReadResult
    \/ PlainClientReadHandshake
    \/ PlainClientMux
    \/ PlainClientOpenControl
    \/ PlainClientOpenData
    \/ ClientExit
    \/ PlainHostSendHandshake
    \/ PlainHostReadMode
    \/ PlainHostStartPty
    \/ HostMuxRecv
    \/ PlainHostAccept

Spec == Init /\ [][Next]_vars

\* ---------------------------------------------------- a session on its own
\* one plain connection from the accept to the end of the session, between
\* Client.Connect and Server.handle or between runClient and handle of jcat.go
Accepted(impl) ==
    /\ share = [ShareIdle EXCEPT !.status = "sharing", !.listener = impl]
    /\ client = [ClientIdle EXCEPT !.kind = impl, !.pc = "readHandshake",
                                   !.mode = ModeView]
    /\ host = [HostIdle EXCEPT !.pc = "accepted"]
    /\ c2s = <<>>
    /\ s2c = <<>>
    /\ events = {}
    /\ NoFn
    /\ NoEnc
    /\ NoSess

InitSession == Accepted("plain")

\* the steps of the program
SessionProgram ==
    \/ PlainClientReadHandshake
    \/ PlainClientMux
    \/ PlainClientOpenControl
    \/ PlainClientOpenData
    \/ ClientMuxRecv
    \/ ClientGeometry
    \/ ClientSigwinch
    \/ ClientCopyStdin
    \/ ClientCopyStdout
    \/ ClientTeardown
    \/ ClientExit
    \/ PlainHostSendHandshake
    \/ PlainHostReadMode
    \/ PlainHostStartPty
    \/ HostMuxRecv
    \/ PlainHostAccept
    \/ HostWait
    \/ HostGeometryDecode
    \/ HostSetSize
    \/ HostKill
    \/ HostCopyIn
    \/ HostCopyOut
    \/ HostTeardown

\* the steps of the user, the shell and the operator
SessionEnvironment ==
    \/ WindowResize
    \/ ChildExit
    \/ ListenerKilled

NextSession == SessionProgram \/ SessionEnvironment

SpecSession == InitSession /\ [][NextSession]_vars

\* every goroutine that can take a step does, and the shell exits in the end
SpecSessionFair == SpecSession /\ WF_vars(SessionProgram) /\ WF_vars(ChildExit)

\* the geometry path of a plain connection on its own, with the geometry
\* goroutine taken step by step and resizes in bursts
NextGeometry ==
    \/ PlainHostSendHandshake
    \/ PlainClientReadHandshake
    \/ PlainHostReadMode
    \/ PlainHostStartPty
    \/ PlainClientMux
    \/ PlainClientOpenControl
    \/ PlainClientOpenData
    \/ HostMuxRecv
    \/ PlainHostAccept
    \/ ClientGetSize
    \/ ClientEncode
    \/ ClientSigwinch
    \/ WindowBurst
    \/ HostGeometryDecode
    \/ HostSetSize
    \/ HostKill

SpecGeometry == InitSession /\ [][NextGeometry]_vars

\* the same connection between runClient and handle of jcat.go, which
\* exchange no mode line
InitJcat == Accepted("jcat")

JcatProgram ==
    \/ PlainClientReadHandshake
    \/ PlainClientMux
    \/ PlainClientOpenControl
    \/ PlainClientOpenData
    \/ ClientMuxRecv
    \/ ClientGeometry
    \/ ClientSigwinch
    \/ ClientCopyStdin
    \/ ClientCopyStdout
    \/ ClientTeardown
    \/ PlainHostSendHandshake
    \/ PlainHostStartPty
    \/ HostMuxRecv
    \/ PlainHostAccept
    \/ HostWait
    \/ HostGeometryDecode
    \/ HostSetSize
    \/ HostKill
    \/ HostCopyIn
    \/ HostCopyOut
    \/ HostTeardown

NextJcat == JcatProgram \/ SessionEnvironment

SpecJcat == InitJcat /\ [][NextJcat]_vars


\* ---------------------------------------------------- the listening process
\* Server.Start, SecureServer.Start and runServer of jcat.go: the accept loop
\* and the handler goroutines it starts. share.handlers holds, for each
\* accepted connection, "running" or the way its handler returned.
InitListener ==
    /\ \E impl \in {"plain", "secure", "jcat"} :
         share = [ShareIdle EXCEPT !.status = "sharing", !.listener = impl]
    /\ host = HostIdle
    /\ client = ClientIdle
    /\ c2s = <<>>
    /\ s2c = <<>>
    /\ events = {}
    /\ NoFn
    /\ NoEnc
    /\ NoSess

\* the ways a handler returns: Server.handle and handle of jcat.go on a write
\* or read error of the handshake, a multiplexer error, a PTY error, an Accept
\* error, or after the teardown; handleSecure after a failed handshake
\* (handshake, authentication, framing) or after an authenticated one
HandlerReturns(impl) ==
    IF impl = "secure" THEN {"handshake failed", "authenticated"}
    ELSE {"handshake error", "session error", "pty error", "accept error", "done"}

\* conn, err := ln.Accept() with err == nil; go handle(conn)
ListenerAccept ==
    /\ share.alive
    /\ Len(share.handlers) < MaxConns
    /\ share' = [share EXCEPT !.handlers = Append(@, "running")]
    /\ UNCHANGED << host, client, c2s, s2c, events, fn, enc, sess >>

\* conn, err := ln.Accept() with err != nil: Start logs the error and goes on;
\* runServer logs conn.RemoteAddr() of the nil conn, which panics, and the
\* process ends with all its goroutines
ListenerAcceptError ==
    /\ share.alive
    /\ share.acceptErrors < MaxAcceptErrors
    /\ IF share.listener = "jcat"
       THEN share' = [share EXCEPT !.acceptErrors = @ + 1, !.alive = FALSE,
                                   !.handlers = [i \in DOMAIN @ |->
                                        IF @[i] = "running" THEN "killed" ELSE @[i]]]
       ELSE share' = [share EXCEPT !.acceptErrors = @ + 1]
    /\ UNCHANGED << host, client, c2s, s2c, events, fn, enc, sess >>

\* the handler of connection i returns; every return only ends its goroutine
HandlerReturn(i, how) ==
    /\ share.alive
    /\ i \in DOMAIN share.handlers
    /\ share.handlers[i] = "running"
    /\ how \in HandlerReturns(share.listener)
    /\ share' = [share EXCEPT !.handlers[i] = how]
    /\ UNCHANGED << host, client, c2s, s2c, events, fn, enc, sess >>

NextListener ==
    \/ ListenerAccept
    \/ ListenerAcceptError
    \/ \E i \in 1..MaxConns, how \in HandlerReturns("plain") \cup HandlerReturns("secure") :
         HandlerReturn(i, how)

SpecListener == InitListener /\ [][NextListener]_vars

\* ------------------------------------------------- the port-mapping file
\* port_sessions.db and the processes that change it: share.portFile holds
\* the lines of the file, each a port and a session name; share.procs holds
\* for each process the operation under way, the lines it has read, and the
\* last operation it has completed.  Process i works on port PortOf(i).
PortOf(i) == 12344 + i

InitPorts ==
    /\ share = [ShareIdle EXCEPT
                  !.procs = [i \in 1..MaxProcs |->
                               [pc |-> "idle", op |-> "none", name |-> "",
                                mappings |-> <<>>, last |-> "none", ops |-> 0]]]
    /\ host = HostIdle
    /\ client = ClientIdle
    /\ c2s = <<>>
    /\ s2c = <<>>
    /\ events = {}
    /\ NoFn
    /\ NoEnc
    /\ NoSess

\* the mappings kept by updatePortMapping and removePortMapping: those of
\* another port
OtherPorts(mappings, port) == SelectSeq(mappings, LAMBDA m : m.port # port)

\* the lines updatePortMapping (op "update") and removePortMapping (op
\* "remove") write back, given the lines they have read
WriteBack(mappings, op, port, name) ==
    IF op = "update"
    THEN Append(OtherPorts(mappings, port), [port |-> port, name |-> name])
    ELSE OtherPorts(mappings, port)

\* the first half of updatePortMapping / removePortMapping in process i:
\* readPortMappings
PortRead(i, op, name) ==
    /\ i \in DOMAIN share.procs
    /\ share.procs[i].pc = "idle"
    /\ share.procs[i].ops < MaxPortOps
    /\ share' = [share EXCEPT !.procs[i] =
                    [@ EXCEPT !.pc = "write", !.op = op, !.name = name,
                              !.mappings = share.portFile]]
    /\ UNCHANGED << host, client, c2s, s2c, events, fn, enc, sess >>

\* the second half: os.WriteFile of the lines kept and the new entry
PortWrite(i) ==
    /\ i \in DOMAIN share.procs
    /\ share.procs[i].pc = "write"
    /\ LET pr == share.procs[i]
       IN  share' = [share EXCEPT
                       !.portFile = WriteBack(pr.mappings, pr.op, PortOf(i), pr.name),
                       !.procs[i] = [@ EXCEPT !.pc = "idle", !.last = pr.op,
                                              !.ops = @ + 1, !.mappings = <<>>]]
    /\ UNCHANGED << host, client, c2s, s2c, events, fn, enc, sess >>

NextPorts ==
    \/ \E i \in 1..MaxProcs, op \in {"update", "remove"}, name \in {"dev", "web"} :
         PortRead(i, op, name)
    \/ \E i \in 1..MaxProcs : PortWrite(i)

SpecPorts == InitPorts /\ [][NextPorts]_vars

\* ------------------------------------------- the security package on its own
\* PasswordAuth and EncryptedConnection applied to drawn inputs
PureNonces ==
    Nonces \cup { [i \in 1..16 |-> 2 * i], [i \in 1..20 |-> 7 * i], [i \in 1..8 |-> i] }
PurePasswords == Passwords \cup {NoPassword, Asc(<<"g">>)}
PlainBytes == {0, 255}
SessionKeys == { DeriveSessionKey(pw, n).val : pw \in {PwGlobal, PwDev}, n \in {NonceA} }

\* byte strings over alphabet of length at most n
RECURSIVE Strings(_, _)
Strings(alphabet, n) ==
    IF n = 0 THEN {<<>>}
    ELSE Strings(alphabet, n - 1)
            \cup { Append(t, b) : t \in {u \in Strings(alphabet, n - 1) : Len(u) = n - 1},
                                  b \in alphabet }

Plaintexts == Strings(PlainBytes, MaxPlain)

\* nonceCounter of a connection on which Encrypt has been called 2^64 - 1 times
Max64 == [i \in 1..8 |-> 255]

\* a configuration with a session password and no global one
CfgSessionOnly == SecurityConfig(TRUE, NoPassword, [n \in {"dev"} |-> PwDev])
PureConfigs == BaseConfigs \cup {CfgSessionOnly}
PureNames == {"", "dev", "other"}

\* bytes of a nonce or response: zero, a newline, a space, the largest
MsgBytes == {0, 10, 32, 255}
MsgStrings == Strings(MsgBytes, MaxMsgBytes)

InitPure ==
    /\ share = ShareIdle /\ host = HostIdle /\ client = ClientIdle
    /\ c2s = <<>> /\ s2c = <<>> /\ events = {}
    /\ NoEnc
    /\ NoSess
    /\ \/ \E p \in PurePasswords, q \in PurePasswords, n \in PureNonces :
            fn = [FnIdle EXCEPT !.kind = "auth", !.step = "start",
                                !.p = p, !.q = q, !.n = n]
       \/ \E k \in SessionKeys, kp \in SessionKeys, sent \in {Zero8, Max64} :
            fn = [FnIdle EXCEPT !.kind = "enc", !.step = "start",
                                !.ec = [NewEncryptedConnection(k) EXCEPT
                                           !.nonceCounter = sent],
                                !.peer = NewEncryptedConnection(kp)]
       \/ \E config \in PureConfigs, name \in PureNames :
            fn = [FnIdle EXCEPT !.kind = "pw", !.step = "start",
                                !.config = config, !.name = name]
       \/ \E kind \in {"challenge", "response"}, b \in MsgStrings :
            fn = [FnIdle EXCEPT !.kind = kind, !.step = "start", !.b = b]

PureGenerate ==
    /\ fn.kind = "auth" /\ fn.step = "start"
    /\ fn' = [fn EXCEPT !.response = GenerateAuthResponse(fn.p, fn.n),
                        !.step = "generated"]
    /\ UNCHANGED << share, host, client, c2s, s2c, events, enc, sess >>

PureVerify ==
    /\ fn.kind = "auth" /\ fn.step = "generated"
    /\ fn.response.ok
    /\ fn' = [fn EXCEPT !.verified = VerifyAuthResponse(fn.q, fn.n, fn.response.val),
                        !.step = "verified"]
    /\ UNCHANGED << share, host, client, c2s, s2c, events, enc, sess >>

PureEncrypt(m) ==
    /\ fn.kind = "enc" /\ fn.step \in {"start", "encrypted"}
    /\ fn.count < MaxRecords
    /\ LET e == Encrypt(fn.ec, m)
       IN  fn' = [fn EXCEPT !.ec = e.ec, !.rec = e.val, !.m = m,
                            !.counterBefore = fn.ec.nonceCounter, !.encOk = e.ok,
                            !.count = @ + 1, !.step = "encrypted"]
    /\ UNCHANGED << share, host, client, c2s, s2c, events, enc, sess >>

\* one bit of the ciphertext or of the tag of the record is flipped
PureTamper(i, k) ==
    /\ fn.kind = "enc" /\ fn.step = "encrypted"
    /\ i \in (AeadNonceLen + 1)..Len(fn.rec)
    /\ fn' = [fn EXCEPT !.rec = [@ EXCEPT ![i] = FlipBit(@, k)],
                        !.tampered = TRUE, !.pos = i, !.step = "tampered"]
    /\ UNCHANGED << share, host, client, c2s, s2c, events, enc, sess >>

PureDecrypt(who) ==
    /\ fn.kind = "enc" /\ fn.step \in {"encrypted", "tampered"}
    /\ fn' = [fn EXCEPT !.out = Decrypt(IF who = "same" THEN fn.ec ELSE fn.peer, fn.rec),
                        !.who = who, !.step = "decrypted"]
    /\ UNCHANGED << share, host, client, c2s, s2c, events, enc, sess >>

\* NewPasswordAuth(config).GetPasswordForSession(name)
PureGetPassword ==
    /\ fn.kind = "pw" /\ fn.step = "start"
    /\ fn' = [fn EXCEPT !.password = GetPasswordForSession(fn.config, fn.name),
                        !.step = "got"]
    /\ UNCHANGED << share, host, client, c2s, s2c, events, enc, sess >>

\* FormatChallengeMessage(b) or FormatResponseMessage(b)
PureFormat ==
    /\ fn.kind \in {"challenge", "response"} /\ fn.step = "start"
    /\ fn' = [fn EXCEPT !.msg = IF fn.kind = "challenge"
                                 THEN FormatChallengeMessage(fn.b)
                                 ELSE FormatResponseMessage(fn.b),
                        !.step = "formatted"]
    /\ UNCHANGED << share, host, client, c2s, s2c, events, enc, sess >>

\* ParseChallengeMessage(msg) or ParseResponseMessage(msg)
PureParse ==
    /\ fn.kind \in {"challenge", "response"} /\ fn.step = "formatted"
    /\ fn' = [fn EXCEPT !.parsed = IF fn.kind = "challenge"
                                    THEN ParseChallengeMessage(fn.msg)
                                    ELSE ParseResponseMessage(fn.msg),
                        !.step = "parsed"]
    /\ UNCHANGED << share, host, client, c2s, s2c, events, enc, sess >>

NextPure ==
    \/ PureGetPassword
    \/ PureFormat
    \/ PureParse
    \/ PureGenerate
    \/ PureVerify
    \/ \E m \in Plaintexts : PureEncrypt(m)
    \/ \E i \in 1..(AeadNonceLen + MaxPlain + TagLen), k \in 0..7 : PureTamper(i, k)
    \/ \E who \in {"same", "peer"} : PureDecrypt(who)

SpecPure == InitPure /\ [][NextPure]_vars

\* ----------------------------------------- two EncryptedConn over one socket
\* enc.w is the writing peer's EncryptedConn, enc.r the reading peer's; both
\* were built from the session key of one handshake.  enc.recs are the records
\* the writer has put on the wire, enc.sock the bytes that have arrived at the
\* reader's socket and enc.order the indices of the records that arrived, in
\* arrival order: the network may deliver a record again or out of order.
InitConn ==
    /\ share = ShareIdle /\ host = HostIdle /\ client = ClientIdle
    /\ c2s = <<>> /\ s2c = <<>> /\ events = {}
    /\ NoFn
    /\ NoSess
    /\ \E k \in SessionKeys :
         enc = [EncIdle EXCEPT !.w = NewEncryptedConn(k), !.r = NewEncryptedConn(k)]

\* ec.Write(p) on the writing side
ConnWriteRecord(p) ==
    /\ Len(enc.sent) < MaxRecords
    /\ LET w == ConnWrite(enc.w, p)
       IN  enc' = [enc EXCEPT !.w = w.ec,
                              !.recs = Append(@, w.bytes),
                              !.sent = Append(@, p)]
    /\ UNCHANGED << share, host, client, c2s, s2c, events, fn, sess >>

\* the bytes of record i arrive at the reader's socket
ConnDeliver(i) ==
    /\ i \in 1..Len(enc.recs)
    /\ Len(enc.order) <= MaxRecords
    /\ enc' = [enc EXCEPT !.sock = @ \o enc.recs[i], !.order = Append(@, i)]
    /\ UNCHANGED << share, host, client, c2s, s2c, events, fn, sess >>

\* ec.Read(buf) on the reading side with a buffer of ReadBufSize bytes
ConnReadRecord ==
    /\ ~enc.failed
    /\ LET r == ConnRead(enc.r, enc.sock, ReadBufSize, FALSE)
       IN  /\ r.status # "block"
           /\ IF r.status = "ok"
              THEN enc' = [enc EXCEPT !.r = r.ec,
                                      !.sock = Drop(@, r.used),
                                      !.consumed = @ + 1,
                                      !.accepted = Append(@, enc.order[enc.consumed + 1]),
                                      !.got = Append(@, r.data)]
              ELSE enc' = [enc EXCEPT !.r = r.ec,
                                      !.sock = Drop(@, r.used),
                                      !.lastLen = IF Len(enc.sock) >= 4
                                                  THEN PrefixLength(enc.sock) ELSE 0,
                                      !.lastUsed = r.used,
                                      !.failed = TRUE]
    /\ UNCHANGED << share, host, client, c2s, s2c, events, fn, sess >>

\* ec.Write(p) on the reading side: its own EncryptedConn, its own counter
ConnWriteBack(p) ==
    /\ Len(enc.back) < MaxRecords
    /\ LET w == ConnWrite(enc.r, p)
       IN  enc' = [enc EXCEPT !.r = w.ec, !.back = Append(@, w.bytes)]
    /\ UNCHANGED << share, host, client, c2s, s2c, events, fn, sess >>

\* bytes that are no record of the writer: a length prefix of 0, of 65537, of
\* 2^24 and of 2^32 - 1, one of 65536 and one of 3 with less payload than
\* that, one of 1 with its byte
Injections ==
    { << 0, 0, 0, 0 >>, << 0, 1, 0, 1 >>, << 1, 0, 0, 0 >>, << 255, 255, 255, 255 >>,
      << 0, 1, 0, 0, 7 >>, << 0, 0, 0, 3, 7, 7 >>, << 0, 0, 0, 1, 7 >> }

\* such bytes arrive at the reader's socket
ConnInject(bytes) ==
    /\ ~enc.injected
    /\ enc' = [enc EXCEPT !.sock = @ \o bytes, !.injected = TRUE]
    /\ UNCHANGED << share, host, client, c2s, s2c, events, fn, sess >>

NextConn ==
    \/ \E p \in Plaintexts : ConnWriteRecord(p)
    \/ \E i \in 1..MaxRecords : ConnDeliver(i)
    \/ ConnReadRecord

SpecConn == InitConn /\ [][NextConn]_vars

\* the reader of a connection on which the writer's records arrive in order
\* and other bytes arrive among them
FramePlaintexts == { [i \in 1..n |-> 0] : n \in 0..MaxPlain }

NextFraming ==
    \/ \E p \in FramePlaintexts : ConnWriteRecord(p)
    \/ ConnDeliver(Len(enc.order) + 1)
    \/ \E bytes \in Injections : ConnInject(bytes)
    \/ ConnReadRecord

SpecFraming == InitConn /\ [][NextFraming]_vars

\* the two endpoints of one connection, each writing records
NextDuplex ==
    \/ \E p \in Plaintexts : ConnWriteRecord(p)
    \/ \E p \in Plaintexts : ConnWriteBack(p)

SpecDuplex == InitConn /\ [][NextDuplex]_vars

\* the byte stream of one direction: writes of any plaintext, records that
\* arrive in the order written, reads into buffers of several sizes
ReadSizes == {1, 2, ReadBufSize}

\* plaintexts whose bytes tell their positions apart: 1, 2, ... and 254, 253, ...
StreamPlaintexts ==
    { [i \in 1..n |-> i] : n \in 0..MaxPlain } \cup
    { [i \in 1..n |-> 255 - i] : n \in 1..MaxPlain }

\* ec.Read(buf) on the reading side with len(buf) = size
ConnReadSized(size) ==
    /\ ~enc.failed
    /\ LET r == ConnRead(enc.r, enc.sock, size, FALSE)
       IN  /\ r.status # "block"
           /\ IF r.status = "ok"
              THEN enc' = [enc EXCEPT !.r = r.ec,
                                      !.sock = Drop(@, r.used),
                                      !.got = Append(@, r.data)]
              ELSE enc' = [enc EXCEPT !.r = r.ec,
                                      !.sock = Drop(@, r.used),
                                      !.lastUsed = r.used,
                                      !.failed = TRUE]
    /\ UNCHANGED << share, host, client, c2s, s2c, events, fn, sess >>

NextStream ==
    \/ \E p \in StreamPlaintexts : ConnWriteRecord(p)
    \/ ConnDeliver(Len(enc.order) + 1)
    \/ \E size \in ReadSizes : ConnReadSized(size)

SpecStream == InitConn /\ [][NextStream]_vars

\* writes of large buffers, taken by their sizes: of each record only the
\* length prefix is kept, which is all the reader looks at before it decides
\* whether to read the record
WriteSizes == {0, 1, 32768, 65507, 65508, 65509, 65536}

\* len(encryptedData) for len(p) = n: the nonce, the ciphertext, the tag
RecordLen(n) == AeadNonceLen + n + TagLen

\* ec.Write(p) with len(p) = n: the counter moves on, the length prefix goes
\* to the socket (followed by the record, which is left out)
ConnWriteSized(n) ==
    /\ Len(enc.sizes) < MaxRecords
    /\ enc' = [enc EXCEPT !.w.encryptor.nonceCounter = Inc64(@),
                          !.sizes = Append(@, n),
                          !.recs = Append(@, LengthPrefix(RecordLen(n)))]
    /\ UNCHANGED << share, host, client, c2s, s2c, events, fn, sess >>

\* ec.Read(buf) up to the check of the length: the prefix is refused, or the
\* reader goes on to read the record
ConnReadHeader ==
    /\ ~enc.failed
    /\ Len(enc.sock) >= 4
    /\ LET r == ConnRead(enc.r, Take(enc.sock, 4), ReadBufSize, FALSE)
       IN  IF r.status = "err"
           THEN enc' = [enc EXCEPT !.sock = Drop(@, 4),
                                   !.lastLen = PrefixLength(enc.sock),
                                   !.lastUsed = r.used,
                                   !.failed = TRUE]
           ELSE enc' = [enc EXCEPT !.sock = Drop(@, 4), !.consumed = @ + 1]
    /\ UNCHANGED << share, host, client, c2s, s2c, events, fn, sess >>

NextWriteSizes ==
    \/ \E n \in WriteSizes : ConnWriteSized(n)
    \/ ConnDeliver(Len(enc.order) + 1)
    \/ ConnReadHeader

SpecWriteSizes == InitConn /\ [][NextWriteSizes]_vars

\* ------------------------------------------------------------------ claims
\* the passwords configured on the sharing side
ConfiguredPasswords(config) ==
    (IF config.GlobalPassword # NoPassword THEN {config.GlobalPassword} ELSE {})
        \cup SessionCandidates(config)

\* C1: a plain client on a secure listener fails at the handshake with an
\* error and never sends a MODE line, creates a multiplexer or opens a stream;
\* a secure client on a plain listener fails at the handshake with an error
\* and never sends an AUTH line.
C1_HandshakeMismatchFails ==
    /\ (client.kind = "plain" /\ share.listener = "secure") =>
          /\ events \cap {"c_mode", "c_mux", "c_stream"} = {}
          /\ client.pc \in {"readHandshake", "done"}
          /\ client.pc = "done" => client.result = "err"
    /\ (client.kind = "secure" /\ share.listener = "plain") =>
          /\ events \cap {"c_auth", "c_response", "c_mode"} = {}
          /\ client.pc \in {"readHandshake", "done"}
          /\ client.pc = "done" => client.result = "err"

C1_Witness ==
    /\ client.kind = "plain"
    /\ share.listener = "secure"
    /\ "h_handshake" \in events
    /\ client.pc = "done"
    /\ client.result = "err"

\* C2: once the host has received a well-formed RESPONSE it has written
\* AUTH_OK exactly if the response is the one recomputed for the configured
\* global password or for a session-scoped password, and otherwise it has
\* written AUTH_FAIL and closed the socket without an encrypted connection.
C2_AuthOkIffConfiguredMatch ==
    "h_response" \in events =>
        LET match == \E pw \in ConfiguredPasswords(share.config) :
                        VerifyAuthResponse(pw, host.nonce, host.response)
        IN  /\ match <=> "h_auth_ok" \in events
            /\ ~match <=> "h_auth_fail" \in events
            /\ ~match => host.closed /\ host.conn = NoEncryptedConn

\* C4: when the host has sent AUTH_OK and the client has accepted it, both
\* EncryptedConn hold the same session key.
C4_SessionKeysAgree ==
    ("h_auth_ok" \in events /\ client.authed) =>
        client.conn.encryptor.cipher = host.conn.encryptor.cipher

C4_Witness ==
    /\ "h_auth_ok" \in events
    /\ client.authed
    /\ client.password = PwDev
    /\ share.config.GlobalPassword = PwGlobal
    /\ Cardinality(ConfiguredPasswords(share.config)) >= 2
    /\ Len(host.conn.encryptor.cipher) = 32

\* the client has answered the challenge with a password that is none of the
\* host's configured passwords
WrongPassword ==
    /\ "c_response" \in events
    /\ client.password \notin ConfiguredPasswords(share.config)

\* C5: after a response computed from a password that matches no configured
\* candidate the host answers AUTH_FAIL (never AUTH_OK), the client's Connect
\* ends with an error, and no MODE line is sent, no multiplexer created, no
\* stream opened and no shell spawned on that connection.
C5_WrongPasswordRejected ==
    WrongPassword =>
        /\ "h_auth_ok" \notin events
        /\ "h_response" \in events => "h_auth_fail" \in events /\ host.closed
        /\ ~client.authed
        /\ client.pc = "done" => client.result = "err"
        /\ events \cap {"c_mode", "c_mux", "c_stream",
                        "h_mode", "h_mux", "h_stream", "h_shell"} = {}

C5_Witness ==
    /\ WrongPassword
    /\ "h_auth_fail" \in events
    /\ client.pc = "done"
    /\ client.result = "err"

\* C6: once the client has accepted AUTH_OK, SecureClient.Connect does not
\* return an error (the session goes on to the multiplexer and its streams).
C6_ConnectSucceedsAfterAuth ==
    client.authed => client.result # "err"

\* C7: with the security configuration enabled, the listener StartShare brings
\* up is a secure one, inside tmux and through the wrapper script alike.
C7_EnabledMeansSecureListener ==
    (share.status = "sharing" /\ share.config.Enabled) => share.listener = "secure"

\* C3: for passwords p, q and a nonce n of at least 16 bytes,
\* VerifyAuthResponse(q, n, GenerateAuthResponse(p, n)) is true exactly when
\* q = p; GenerateAuthResponse gives a response for every such nonce.
C3_VerifyExactlyOwnPassword ==
    fn.kind = "auth" =>
        /\ fn.step \in {"generated", "verified"} => (fn.response.ok <=> Len(fn.n) >= 16)
        /\ fn.step = "verified" => (fn.verified <=> fn.q = fn.p)

C3_Witness ==
    /\ fn.kind = "auth"
    /\ fn.step = "verified"
    /\ Len(fn.n) >= 16
    /\ fn.q # fn.p
    /\ ~fn.verified

\* C8: Decrypt of an untouched record returns the plaintext that was
\* encrypted, without error, on the connection that encrypted it and on a
\* peer connection built from the same key.
C8_DecryptEncryptRoundTrip ==
    ( /\ fn.kind = "enc"
      /\ fn.step = "decrypted"
      /\ ~fn.tampered
      /\ (fn.who = "same" \/ fn.peer.cipher = fn.ec.cipher) ) =>
        fn.out = Ok(fn.m)

C8_Witness ==
    /\ fn.kind = "enc"
    /\ fn.step = "decrypted"
    /\ ~fn.tampered
    /\ fn.who = "peer"
    /\ fn.peer.cipher = fn.ec.cipher
    /\ fn.count = MaxRecords
    /\ Len(fn.m) = MaxPlain
    /\ fn.out = Ok(fn.m)

\* C9: a record with one bit of its ciphertext or tag flipped makes Decrypt
\* return an error and no plaintext; Decrypt never succeeds with a plaintext
\* other than the one that was encrypted.
C9_TamperDetected ==
    (fn.kind = "enc" /\ fn.step = "decrypted") =>
        /\ fn.tampered => ~fn.out.ok /\ fn.out.val = <<>>
        /\ fn.out.ok => fn.out.val = fn.m

C9_Witness ==
    /\ fn.kind = "enc"
    /\ fn.step = "decrypted"
    /\ fn.tampered
    /\ Len(fn.m) > 0
    /\ fn.pos <= AeadNonceLen + Len(fn.m)
    /\ fn.peer.cipher = fn.ec.cipher
    /\ ~fn.out.ok

\* C10: EncryptedConn.Read returns plaintext for a record only if it is the
\* next record, in send order, that the peer wrote: the k-th record accepted
\* is the k-th record written.
C10_OnlyNextRecordAccepted ==
    \A k \in 1..Len(enc.accepted) : enc.accepted[k] = k

\* the client has connected with a mode that is none of pair, view and rogue
\* and the host has read its mode line
UnrecognizedModeRead ==
    /\ client.kind \in {"plain", "secure"}
    /\ client.mode \notin Modes
    /\ "h_mode" \in events

\* C11: after a mode line whose value is none of pair, view and rogue the
\* mode the host uses, and exports as JCAT_MODE when it starts the shell, is
\* pair, and the connection has not failed.
C11_UnrecognizedModeIsPair ==
    UnrecognizedModeRead =>
        /\ host.mode = ModePair
        /\ host.err = "none"
        /\ "h_shell" \in events => host.jcatMode = ModePair

\* C13: a stream is open on a connection (the client has opened it or the
\* host has accepted it) only if the client has read the handshake line its
\* kind expects and, when it is a secure client, has also accepted AUTH_OK
\* and holds an EncryptedConn with the session key.
C13_StreamsOnlyAfterHandshake ==
    (client.kind \in {"plain", "secure"} /\ events \cap {"c_stream", "h_stream"} # {}) =>
        /\ client.kind = "plain" => client.handshake = HandshakeMsg
        /\ client.kind = "secure" =>
              /\ TrimSpace(client.handshake) = TrimSpace(SecureHandshakeMsg)
              /\ client.authed
              /\ client.conn # NoEncryptedConn

C13_Witness ==
    /\ client.kind = "plain"
    /\ client.handshake = HandshakeMsg
    /\ "c_stream" \in events
    /\ "h_stream" \in events

\* bytes that are a sequence of whole records: a 4-byte big-endian length of
\* at least nonce plus tag and at most 64 KiB, then that many bytes
RECURSIVE IsRecords(_)
IsRecords(bytes) ==
    \/ bytes = <<>>
    \/ /\ Len(bytes) >= 4
       /\ bytes[1] = 0
       /\ bytes[2] <= 1
       /\ LET length == bytes[2] * 65536 + bytes[3] * 256 + bytes[4]
          IN  /\ length >= AeadNonceLen + TagLen
              /\ length <= MaxRecordLen
              /\ Len(bytes) >= 4 + length
              /\ IsRecords(Drop(bytes, 4 + length))

\* C14: on a secure connection everything the client has written after the
\* RESPONSE line, once it has accepted AUTH_OK, and everything the host has
\* written after AUTH_OK is a sequence of whole encrypted records; the MODE
\* line is among the client's records and is not on the wire in plaintext.
C14_OnlyRecordsAfterAuthOk ==
    /\ client.authed =>
          LET plain == AuthMsg \o FormatResponseMessage(
                          GenerateAuthResponse(client.password, client.nonce).val)
              rest == Drop(client.sent, Len(plain))
          IN  /\ HasPrefix(client.sent, plain)
              /\ rest # <<>>
              /\ IsRecords(rest)
              /\ ~HasPrefix(rest, ModePrefix)
    /\ "h_auth_ok" \in events =>
          LET plain == SecureHandshakeMsg \o FormatChallengeMessage(host.nonce) \o AuthOkMsg
          IN  /\ HasPrefix(host.sent, plain)
              /\ IsRecords(Drop(host.sent, Len(plain)))

C14_Witness ==
    /\ client.authed
    /\ "h_mode" \in events
    /\ host.mode = client.mode
    /\ client.mode = ModeView
    /\ Len(client.sent) > Len(AuthMsg) + Len(ModeMsg(ModeView)) + AeadNonceLen + TagLen

\* C20: when the handshake fails on the host for an authentication error (the
\* AUTH line is malformed or names an unsupported method, the RESPONSE line is
\* malformed, no candidate matches), the host has written AUTH_FAIL on the
\* connection it closes.
C20_AuthErrorGetsAuthFail ==
    host.err \in {"method", "response", "nomatch"} =>
        /\ "h_auth_fail" \in events
        /\ host.closed
        /\ Len(host.sent) >= Len(AuthFailMsg)
        /\ Drop(host.sent, Len(host.sent) - Len(AuthFailMsg)) = AuthFailMsg

\* C12: the first stream the host accepts, from which it decodes geometry, is
\* the first the client opened, to which it writes geometry, and the second it
\* accepts, which it bridges to the PTY, is the second the client opened, on
\* which it copies terminal bytes; the host applies only updates the client
\* sent and the PTY receives only what the user typed.
C12_StreamRoles ==
    /\ sess.control # 0 => sess.control = ControlStreamID
    /\ sess.data # 0 => sess.data = DataStreamID
    /\ \A i \in 1..Len(sess.applied) : \E j \in 1..Len(sess.geomSent) :
          sess.applied[i] = sess.geomSent[j]
    /\ Len(sess.pty.input) <= Len(Keystrokes)
    /\ sess.pty.input = SubSeq(Keystrokes, 1, Len(sess.pty.input))

\* C15: the updates the host has applied to the PTY are, in order, the first
\* of those the client sent; each is followed by one SIGWINCH to the child
\* before the next is decoded; the PTY has the size of the last one applied,
\* so it has the size of the client's latest update once the host has
\* processed as many as the client sent.
C15_GeometryApplied ==
    /\ Len(sess.applied) <= Len(sess.geomSent)
    /\ sess.applied = SubSeq(sess.geomSent, 1, Len(sess.applied))
    /\ sess.pty.winch <= Len(sess.applied)
    /\ Len(sess.applied) <= sess.pty.winch + 1
    /\ sess.hgeom \in {"decode", "setsize"} => sess.pty.winch = Len(sess.applied)
    /\ sess.hgeom = "kill" => sess.pty.winch + 1 = Len(sess.applied)
    /\ sess.applied # <<>> =>
          /\ sess.pty.rows = sess.applied[Len(sess.applied)].Rows
          /\ sess.pty.cols = sess.applied[Len(sess.applied)].Cols

C15_Witness ==
    /\ sess.hgeom = "decode"
    /\ Len(sess.geomSent) = 2
    /\ Len(sess.applied) = 2
    /\ sess.pty.winch = 2
    /\ sess.pty.rows = 40
    /\ sess.pty.cols = 120

\* C16: the handler closes the PTY and the multiplexer session only after it
\* has taken the completion of one of the four loops, and once one of the
\* loops has finished the handler does not return without having closed them.
C16_FirstFinishedTearsDown ==
    /\ sess.torn => sess.done # "none"
    /\ (host.pc = "done" /\ \E g \in HostLoops : sess[g] \in {"send", "end"}) =>
          (sess.torn /\ ~sess.pty.open /\ sess.hmux.state = "closed")

\* C17: after the teardown every one of the four loops of the host ends: none
\* stays in its loop and none stays in the send on the done channel.
C17_LoopsTerminate ==
    sess.torn ~> (\A g \in HostLoops : sess[g] = "end")

\* C18: when the client has left the session, by a return of Connect or by
\* the end of the process, its terminal is not in raw mode.
C18_TerminalRestored ==
    client.pc = "done" => ~client.raw

\* C19: the listening process stays alive whatever happens on a connection
\* and whatever Accept returns, and no handler is ended by anything but its
\* own return.
C19_ListenerSurvives ==
    /\ share.alive
    /\ \A i \in DOMAIN share.handlers : share.handlers[i] # "killed"

\* C21: GetPasswordForSession(name) is the password of the entry of
\* SessionPasswords for name when there is one, and the global password
\* otherwise, which is empty when none is configured.
C21_SessionPasswordElseGlobal ==
    (fn.kind = "pw" /\ fn.step = "got") =>
        /\ (fn.config = CfgBoth /\ fn.name = "dev") => fn.password = PwDev
        /\ (fn.config = CfgBoth /\ fn.name # "dev") => fn.password = PwGlobal
        /\ fn.config = CfgGlobal => fn.password = PwGlobal
        /\ (fn.config = CfgSessionOnly /\ fn.name = "dev") => fn.password = PwDev
        /\ (fn.config = CfgSessionOnly /\ fn.name # "dev") => fn.password = <<>>
        /\ fn.config = CfgOff => fn.password = <<>>

C21_Witness ==
    /\ fn.kind = "pw" /\ fn.step = "got"
    /\ fn.config = CfgBoth /\ fn.name = "dev"
    /\ fn.password = PwDev

\* C22: parsing the challenge message formatted from b, and parsing the
\* response message formatted from b, both succeed and give b.
C22_FormatParseRoundTrip ==
    (fn.kind \in {"challenge", "response"} /\ fn.step = "parsed") =>
        /\ fn.parsed.ok
        /\ fn.parsed.val = fn.b

C22_Witness ==
    /\ fn.kind = "response" /\ fn.step = "parsed"
    /\ fn.b = << 10, 32, 255, 0 >>
    /\ fn.parsed = Ok(fn.b)

\* the MODE line of a client: its first line after the handshake on a plain
\* connection, the plaintext of its record on a secure one
ModeLineSent(c) ==
    IF c.kind = "plain" THEN Take(c.sent, IndexByte(c.sent, NL))
    ELSE LET afterAuth == Drop(c.sent, IndexByte(c.sent, NL))
             record == Drop(afterAuth, IndexByte(afterAuth, NL))
         IN  Decrypt(NewEncryptedConnection(DeriveSessionKey(c.password, c.nonce).val),
                     Drop(record, 4)).val

C23_WitnessSecure ==
    /\ client.kind = "secure"
    /\ client.sessionMode = <<>>
    /\ client.override = <<>>
    /\ "c_mode" \in events
    /\ ModeLineSent(client) = Asc(<<"M","O","D","E",":","p","a","i","r","\n">>)

\* the handshake the client in use expects
HandshakeTemplate(c) == IF c.kind = "secure" THEN SecureHandshakeMsg ELSE HandshakeMsg

\* the client has gone on after the handshake: it has sent its AUTH line or
\* its MODE line
HandshakeAccepted == events \cap {"c_auth", "c_mode"} # {}

\* C24: a client goes on after the handshake only if the bytes it received
\* are those of its template, and when they are not it ends with an error.
C24_HandshakeByteForByte ==
    client.kind \in {"plain", "secure"} =>
        /\ HandshakeAccepted => client.handshake = HandshakeTemplate(client)
        /\ (client.handshake # <<>> /\ client.handshake # HandshakeTemplate(client)) =>
              (client.pc = "done" /\ client.result = "err")

\* C25: the client has established its multiplexer (and on a secure
\* connection is authenticated with encryption active) when it writes its
\* MODE line, and the host has established its own when it reads the line.
C25_ModeAfterMultiplexer ==
    /\ "c_mode" \in events =>
          /\ "c_mux" \in events
          /\ client.kind = "secure" => client.authed
    /\ "h_mode" \in events => "h_mux" \in events

\* C26: the bytes the mode read of a plain host takes off the connection are
\* those of the client's MODE line and no others, and the mode parsed from
\* them is the mode the client sent.
C26_ModeReadTakesOneLine ==
    (share.listener = "plain" /\ client.kind = "plain" /\ "h_mode" \in events) =>
        /\ host.modeRead = ModeMsg(client.mode)
        /\ host.mode = client.mode

\* C27: a Read that finds a length prefix of 0 or of more than 65536 fails,
\* gives no plaintext and takes the four bytes of the prefix only; one that
\* finds a length from 1 to 65536 waits until that many bytes have followed
\* and takes the prefix and exactly that many.
C27_LengthPrefixChecked ==
    /\ (enc.r.readBuf = <<>> /\ Len(enc.sock) >= 4) =>
          LET length == PrefixLength(enc.sock)
              r == ConnRead(enc.r, enc.sock, ReadBufSize, FALSE)
          IN  IF length <= 0 \/ length > 65536
              THEN r.status = "err" /\ r.data = <<>> /\ r.used = 4
              ELSE IF Len(enc.sock) < 4 + length
              THEN r.status = "block" /\ r.used = 0
              ELSE r.status \in {"ok", "err"} /\ r.used = 4 + length
    /\ (enc.failed /\ (enc.lastLen <= 0 \/ enc.lastLen > 65536)) =>
          (enc.lastUsed = 4 /\ Len(enc.got) = enc.consumed)

C27_Witness ==
    /\ enc.failed
    /\ enc.lastLen = 65537
    /\ enc.lastUsed = 4
    /\ enc.consumed = 1

C27_WitnessInRange ==
    /\ enc.failed
    /\ enc.lastLen = 3
    /\ enc.lastUsed = 7

\* the nonce of a record on the wire: the 12 bytes after the length prefix
NonceOf(rec) == SubSeq(rec, 5, 4 + AeadNonceLen)

\* C28: the records the two endpoints of a connection have written, which
\* are sealed under the same session key, carry pairwise different nonces.
C28_NoncesDistinct ==
    LET all == enc.recs \o enc.back
    IN  \A i, j \in 1..Len(all) : i # j => NonceOf(all[i]) # NonceOf(all[j])

\* C29: an Encrypt called when the send counter is at its maximum returns an
\* error, and does not leave the counter at zero.
C29_CounterExhaustionFails ==
    (fn.kind = "enc" /\ fn.count > 0 /\ fn.counterBefore = Max64) =>
        /\ ~fn.encOk
        /\ fn.ec.nonceCounter # Zero8

\* C30: when the Read of the mode record has failed, the handler has ended
\* with the connection closed, has taken no mode from it, and has written
\* nothing after AUTH_OK.
C30_FramingErrorFatalSilent ==
    host.err = "mode" =>
        /\ host.pc = "done"
        /\ host.closed
        /\ host.mode = <<>>
        /\ "h_mode" \notin events
        /\ host.sent = SecureHandshakeMsg \o FormatChallengeMessage(host.nonce) \o AuthOkMsg

\* the record with a flipped bit has been read from the socket and refused
C30_Witness ==
    /\ host.err = "mode"
    /\ host.closed
    /\ client.kind = "peer"
    /\ client.sent = AuthMsg \o GoodResponse \o [GoodRecord EXCEPT ![Len(GoodRecord)] = FlipBit(@, 0)]
    /\ c2s = <<>>
    /\ host.reader = <<>>

\* the length prefix of zero has been read from the socket and refused
C30_WitnessLength ==
    /\ host.err = "mode"
    /\ client.kind = "peer"
    /\ client.sent = AuthMsg \o GoodResponse \o << 0, 0, 0, 0 >>
    /\ c2s = <<>>
    /\ host.reader = <<>>

\* the peer has hung up in the middle of a record
C30_WitnessTruncated ==
    /\ host.err = "mode"
    /\ client.kind = "peer"
    /\ client.closed
    /\ client.sent = AuthMsg \o GoodResponse \o Take(GoodRecord, Len(GoodRecord) - 3)
    /\ c2s = <<>>
    /\ host.reader = <<>>

\* C40: when no process is in the middle of an operation, the file holds one
\* entry for every port whose process last completed an update and none for
\* a port whose process last completed a removal or has done nothing.
C40_PortMappingsKept ==
    (\A i \in DOMAIN share.procs : share.procs[i].pc = "idle") =>
        \A i \in DOMAIN share.procs :
            Len(SelectSeq(share.portFile, LAMBDA m : m.port = PortOf(i)))
                = IF share.procs[i].last = "update" THEN 1 ELSE 0

\* ------------------------------------------------------------ the AUTH line
\* the first line the connecting side has sent, without its white space
FirstLineSent == TrimSpace(Take(client.sent, IndexByte(client.sent, NL)))

\* C31: the secure host has sent a CHALLENGE only when the first line it
\* received is "AUTH:password" (white space around the line aside); when the
\* line names another method, no method, or lacks the prefix, the host has
\* sent no challenge, generated no nonce, and has ended the connection with
\* an error.
C31_ChallengeOnlyAfterAuthPassword ==
    /\ "h_challenge" \in events =>
          FirstLineSent = AuthPrefix \o AuthMethodPassword
    /\ (/\ share.listener = "secure"
        /\ host.pc \notin {"idle", "accepted", "readAuth"}
        /\ FirstLineSent # AuthPrefix \o AuthMethodPassword) =>
          /\ "h_challenge" \notin events
          /\ host.nonce = <<>>
          /\ host.pc = "done"
          /\ host.closed
          /\ host.err \in {"method", "read"}

\* a line with an empty method has been refused
C31_Witness ==
    /\ host.err = "method"
    /\ FirstLineSent = AuthPrefix
    /\ host.closed

\* a line without the prefix has been refused
C31_WitnessNoPrefix ==
    /\ host.err = "method"
    /\ FirstLineSent = AuthMethodPassword

\* a peer's AUTH line with a carriage return has been answered by a challenge
C31_WitnessChallenge ==
    /\ "h_challenge" \in events
    /\ client.kind = "peer"
    /\ Len(client.sent) = Len(AuthMsg) + 1

\* ------------------------------------------------- exits of the host handler
\* C32: when the plain host handler has returned, on an error or after the
\* session, the TCP connection is closed.
C32_ErrorExitClosesConn ==
    (share.listener = "plain" /\ host.pc = "done") => host.closed

\* C33: when the host handler has returned after the shell was spawned, the
\* pseudo-terminal is closed.
C33_ExitClosesPty ==
    (share.listener = "plain" /\ host.pc = "done" /\ sess.pty.child # "none") =>
        ~sess.pty.open

\* ------------------------------------------------------- geometry updates
\* C34: the geometry goroutine of the client has written an update before it
\* first waits for a signal, writes at most one per resize after that, and
\* whenever it waits with no signal pending the last update it wrote is the
\* current size of the terminal.
C34_LastUpdateIsCurrentSize ==
    /\ sess.cgeom = "waitsig" => sess.geomSent # <<>>
    /\ Len(sess.geomSent) <= 1 + sess.resized
    /\ (sess.cgeom = "waitsig" /\ sess.csig = 0) =>
          sess.geomSent[Len(sess.geomSent)] = SizeAfter(sess.resized)

\* a burst of two resizes was answered by one update, which carries the size
\* after the second
C34_Witness ==
    /\ sess.cgeom = "waitsig"
    /\ sess.csig = 0
    /\ sess.resized = 2
    /\ sess.geomSent = << SizeAfter(0), SizeAfter(2) >>

\* C35: after the teardown on the connecting side (Connect has taken one
\* completion from the done channel and closed the session) every one of the
\* three loops of the client ends: none stays in its loop and none stays in
\* the send on the done channel.
C35_ClientLoopsTerminate ==
    (client.pc = "done" /\ client.result = "ok") ~>
        (\A g \in ClientLoops : sess[g] = "end")

C36_WitnessView ==
    client.kind = "plain" /\ "h_shell" \in events /\ host.jcatMode = ModeView

C36_WitnessPair ==
    /\ client.kind = "plain"
    /\ client.mode = ModePair
    /\ "h_shell" \in events
    /\ host.jcatMode = ModePair

\* C39: on a secure connection between this program's client and host, when
\* the host goes from line reads to reads of records (it has sent AUTH_OK)
\* and from then on, its line reader holds no unread byte, and the same holds
\* for the client once it has read AUTH_OK.
C39_LineReaderHoldsNoRecord ==
    (client.kind = "secure" /\ share.listener = "secure") =>
        /\ "h_auth_ok" \in events => host.reader = <<>>
        /\ client.authed => client.reader = <<>>

\* both sides have switched, and the host has read the client's record from
\* the socket and found the client's mode in it
C39_Witness ==
    /\ client.kind = "secure"
    /\ client.authed
    /\ "h_mode" \in events
    /\ host.mode = client.mode
    /\ host.reader = <<>>
    /\ client.reader = <<>>

\* ------------------------------------------------------ the stream of records
RECURSIVE Flatten(_)
Flatten(chunks) == IF chunks = <<>> THEN <<>> ELSE Head(chunks) \o Flatten(Tail(chunks))

\* C37: whatever the sizes of the buffers passed to Read, the bytes the reads
\* have returned, one after the other, are the first bytes of what the peer
\* has written, in order, and no read has failed.
C37_ReadsArePrefixOfWrites ==
    /\ ~enc.failed
    /\ Len(Flatten(enc.got)) <= Len(Flatten(enc.sent))
    /\ Flatten(enc.got) = Take(Flatten(enc.sent), Len(Flatten(enc.got)))

\* a record of two different bytes was read into buffers of one byte, and
\* the next record after it
C37_Witness ==
    /\ Len(enc.sent) = 2
    /\ enc.sent[1] = << 1, 2 >>
    /\ enc.sent[2] = << 254 >>
    /\ enc.got = << << 1 >>, << 2 >>, << 254 >> >>

\* C38: the reader refuses no record of the writer, whatever the size of the
\* buffer passed to Write: no Read has failed on the length of a record.
C38_WriterRecordsAccepted == ~enc.failed

====
